---- MODULE Spec2Model ----
(***************************************************************************)
(* A model of the Markdown paper parser: the pattern tables and their      *)
(* classifier (strategies/base.py and the three genre strategies), the     *)
(* tree builders (the generic one and the thesis, conference and journal   *)
(* state machines), the detection scorer and the strategy registry         *)
(* (strategies/factory.py), and the node query and rendering layer         *)
(* (markdown_parser.py).                                                   *)
(*                                                                         *)
(* Text is modelled character by character: a Python str is a sequence of  *)
(* one-character strings.  A character outside ASCII is written "uXXXX",   *)
(* its code point, so "u7b2c" is U+7B2C.  Python's None is the string      *)
(* value None below; dicts are functions whose DOMAIN is the key set.      *)
(***************************************************************************)
EXTENDS Integers, Sequences, FiniteSets, TLC

----------------------------------------------------------------------------
(* Characters and the character classes of Python's re and str.strip.      *)

Digit == {"0", "1", "2", "3", "4", "5", "6", "7", "8", "9"}
UpperSeq == <<"A", "B", "C", "D", "E", "F", "G", "H", "I", "J", "K", "L", "M", "N", "O", "P", "Q", "R", "S", "T", "U", "V", "W", "X", "Y", "Z">>
LowerSeq == <<"a", "b", "c", "d", "e", "f", "g", "h", "i", "j", "k", "l", "m", "n", "o", "p", "q", "r", "s", "t", "u", "v", "w", "x", "y", "z">>
Upper == {UpperSeq[k] : k \in DOMAIN UpperSeq}
Lower == {LowerSeq[k] : k \in DOMAIN LowerSeq}
Roman == {"I", "V", "X"}

\* The CJK characters that occur in the pattern tables and the input lines.
Cjk == {"u7b2c", "u7ae0", "u8282", "u6458", "u8981", "u4f5c", "u8005", "u4ecb", "u7ecd",
        "u76ee", "u5f55", "u53c2", "u8003", "u6587", "u732e", "u56fe", "u8868", "u6e05",
        "u5355", "u53d6", "u5f97", "u7684", "u7814", "u7a76", "u6210", "u679c", "u535a",
        "u58eb", "u5b66", "u4f4d", "u8bba", "u81f4", "u8c22", "u4e00", "u4e8c", "u4e09",
        "u56db", "u4e94", "u516d", "u4e03", "u516b", "u4e5d", "u5341"}

\* \s of re and the characters str.strip() removes.
Whitespace == {" ", "\t", "\n", "\r"}

\* \w of re on str patterns: Unicode letters and digits, and the underscore.
WordChar == Digit \cup Upper \cup Lower \cup Cjk \cup {"_"}

ToLower(c) ==
    IF c \in Upper THEN LowerSeq[CHOOSE k \in DOMAIN UpperSeq : UpperSeq[k] = c]
    ELSE c

None == "None"

----------------------------------------------------------------------------
(* Regular expressions.  A pattern is a sequence of items; an item is one  *)
(* of: a character class with a repetition range, "." with a repetition    *)
(* range, the assertions \b, ^ and $, or a group of alternatives.  Ends    *)
(* lists, in the order a backtracking matcher tries them, the positions    *)
(* where a match that starts at position p can end.                        *)

Item(kind, cs, lo, hi, greedy, alts) ==
    [k |-> kind, cs |-> cs, lo |-> lo, hi |-> hi, greedy |-> greedy, alts |-> alts]
One(cs) == Item("set", cs, 1, 1, TRUE, <<>>)
\* hi = -1: no upper limit
Star(cs) == Item("set", cs, 0, -1, TRUE, <<>>)
Plus(cs) == Item("set", cs, 1, -1, TRUE, <<>>)
Rep(cs, lo, hi) == Item("set", cs, lo, hi, TRUE, <<>>)
DotStar == Item("dot", {}, 0, -1, TRUE, <<>>)
DotStarLazy == Item("dot", {}, 0, -1, FALSE, <<>>)
DotPlus == Item("dot", {}, 1, -1, TRUE, <<>>)
WordB == Item("b", {}, 0, 0, TRUE, <<>>)
Bol == Item("bol", {}, 0, 0, TRUE, <<>>)
Eol == Item("eol", {}, 0, 0, TRUE, <<>>)
Alt(alts) == Item("alt", {}, 0, 0, TRUE, alts)
Lit(s) == [k \in DOMAIN s |-> One({s[k]})]

\* flags: i is re.IGNORECASE, m is re.MULTILINE
NoFlags == [i |-> FALSE, m |-> FALSE]
IgnoreCase == [i |-> TRUE, m |-> FALSE]
Multiline == [i |-> FALSE, m |-> TRUE]
IgnoreCaseMultiline == [i |-> TRUE, m |-> TRUE]

Sat(it, c, fl) ==
    IF it.k = "dot" THEN c # "\n"
    ELSE IF fl.i THEN ToLower(c) \in {ToLower(x) : x \in it.cs}
    ELSE c \in it.cs

Min(a, b) == IF a < b THEN a ELSE b
Max(a, b) == IF a > b THEN a ELSE b

\* the longest run of characters from position p that the item accepts
Run(it, t, p, fl) ==
    LET ok(n) == \A j \in 1..n : Sat(it, t[p + j], fl)
    IN  CHOOSE n \in 0..(Len(t) - p) :
            /\ ok(n)
            /\ n = Len(t) - p \/ ~Sat(it, t[p + n + 1], fl)

\* the repetition counts tried, in order: greedy from the most, lazy from the least
Counts(it, run) ==
    LET top == IF it.hi < 0 THEN run ELSE Min(it.hi, run)
        n == top - it.lo + 1
    IN  IF n <= 0 THEN <<>>
        ELSE [k \in 1..n |-> IF it.greedy THEN top - k + 1 ELSE it.lo + k - 1]

IsBoundary(t, p) ==
    LET before == p > 0 /\ t[p] \in WordChar
        after == p < Len(t) /\ t[p + 1] \in WordChar
    IN  before # after

IsBol(t, p, fl) == p = 0 \/ (fl.m /\ t[p] = "\n")
IsEol(t, p, fl) ==
    \/ p = Len(t)
    \/ fl.m /\ t[p + 1] = "\n"
    \/ p = Len(t) - 1 /\ t[p + 1] = "\n"

RECURSIVE Ends(_, _, _, _, _), EndsRep(_, _, _, _, _, _), EndsEach(_, _, _, _, _),
          EndsAlt(_, _, _, _, _, _)
Ends(re, k, t, p, fl) ==
    IF k > Len(re) THEN <<p>>
    ELSE LET it == re[k] IN
         IF it.k \in {"set", "dot"}
              THEN EndsRep(re, k, t, p, Counts(it, Run(it, t, p, fl)), fl)
         ELSE IF it.k = "b"
              THEN IF IsBoundary(t, p) THEN Ends(re, k + 1, t, p, fl) ELSE <<>>
         ELSE IF it.k = "bol"
              THEN IF IsBol(t, p, fl) THEN Ends(re, k + 1, t, p, fl) ELSE <<>>
         ELSE IF it.k = "eol"
              THEN IF IsEol(t, p, fl) THEN Ends(re, k + 1, t, p, fl) ELSE <<>>
         ELSE EndsAlt(re, k, t, p, it.alts, fl)
EndsRep(re, k, t, p, ns, fl) ==
    IF ns = <<>> THEN <<>>
    ELSE Ends(re, k + 1, t, p + Head(ns), fl) \o EndsRep(re, k, t, p, Tail(ns), fl)
EndsEach(re, k, t, qs, fl) ==
    IF qs = <<>> THEN <<>>
    ELSE Ends(re, k + 1, t, Head(qs), fl) \o EndsEach(re, k, t, Tail(qs), fl)
EndsAlt(re, k, t, p, as, fl) ==
    IF as = <<>> THEN <<>>
    ELSE EndsEach(re, k, t, Ends(Head(as), 1, t, p, fl), fl)
             \o EndsAlt(re, k, t, p, Tail(as), fl)

\* re.match(re, t): a match that starts at position 0
ReMatch(re, t, fl) == Ends(re, 1, t, 0, fl) # <<>>
\* re.search(re, t): a match that starts anywhere
ReSearch(re, t, fl) == \E p \in 0..Len(t) : Ends(re, 1, t, p, fl) # <<>>

\* the first position from p on where a match starts; -1 when there is none
StartFrom(re, t, p, fl) ==
    LET starts == {q \in p..Len(t) : Ends(re, 1, t, q, fl) # <<>>}
    IN  IF starts = {} THEN -1 ELSE CHOOSE q \in starts : \A r \in starts : q <= r

\* re.search(re, t).start(); -1 when re.search gives None
SearchStart(re, t, fl) == StartFrom(re, t, 0, fl)

\* the <<start, end>> of the matches re.findall and re.sub visit: left to
\* right, each search starting where the last match ended (one further on
\* after an empty match)
RECURSIVE SpansFrom(_, _, _, _)
SpansFrom(re, t, p, fl) ==
    LET q == StartFrom(re, t, p, fl)
    IN  IF q < 0 THEN <<>>
        ELSE LET e == Head(Ends(re, 1, t, q, fl))
             IN  <<<<q, e>>>> \o SpansFrom(re, t, IF e = q THEN q + 1 ELSE e, fl)

\* len(re.findall(re, t))
FindAllCount(re, t, fl) == Len(SpansFrom(re, t, 0, fl))

\* re.findall(prefix(group), t) where group is one capturing group that ends
\* the pattern: the list of what the group matched
FindAllGroup(prefix, group, t, fl) ==
    LET spans == SpansFrom(prefix \o group, t, 0, fl)
        opens(q) == LET xs == Ends(prefix, 1, t, q, fl)
                    IN  xs[CHOOSE k \in DOMAIN xs :
                               /\ Ends(group, 1, t, xs[k], fl) # <<>>
                               /\ \A j \in 1..(k - 1) : Ends(group, 1, t, xs[j], fl) = <<>>]
    IN  [k \in DOMAIN spans |-> SubSeq(t, opens(spans[k][1]) + 1, spans[k][2])]

----------------------------------------------------------------------------
(* str methods                                                             *)

\* s.strip(chars): drop leading and trailing characters that are in cs
StripChars(s, cs) ==
    LET keep == {k \in DOMAIN s : s[k] \notin cs}
    IN  IF keep = {} THEN <<>>
        ELSE LET a == CHOOSE k \in keep : \A j \in keep : k <= j
                 b == CHOOSE k \in keep : \A j \in keep : k >= j
             IN  SubSeq(s, a, b)
\* s.strip()
Strip(s) == StripChars(s, Whitespace)
\* s.startswith(prefix)
StartsWith(s, prefix) ==
    Len(s) >= Len(prefix) /\ SubSeq(s, 1, Len(prefix)) = prefix
\* sub in s
Contains(s, sub) ==
    \E p \in 0..(Len(s) - Len(sub)) : SubSeq(s, p + 1, p + Len(sub)) = sub
\* c.isupper(), c.islower() and c.isalpha() of one character
IsUpper(c) == c \in Upper
IsLower(c) == c \in Lower
IsAlpha(c) == c \in Upper \cup Lower \cup Cjk
\* s.isupper(): a cased character, and no lowercase one
StrIsUpper(s) ==
    /\ \E k \in DOMAIN s : IsUpper(s[k])
    /\ \A k \in DOMAIN s : ~IsLower(s[k])
\* sep.join(parts)
RECURSIVE Join(_, _)
Join(sep, parts) ==
    IF parts = <<>> THEN <<>>
    ELSE IF Len(parts) = 1 THEN parts[1]
    ELSE parts[1] \o sep \o Join(sep, Tail(parts))
\* len(line) - len(line.lstrip('#'))
LeadingHashes(s) ==
    CHOOSE n \in 0..Len(s) :
        /\ \A j \in 1..n : s[j] = "#"
        /\ n = Len(s) \/ s[n + 1] # "#"

----------------------------------------------------------------------------
(* The pattern tables (keywords_config), in declared order.                *)

Entry(keyword, description, level) ==
    [keyword |-> keyword, description |-> description, level |-> level]

\* ThesisParsingStrategy._define_keywords_config
ThesisKeywords == <<
    \* \u7b2c.*\u7ae0
    Entry(<<One({"u7b2c"}), DotStar, One({"u7ae0"})>>, "chapter", 1),
    \* \b\d+\.\d+\b
    Entry(<<WordB, Plus(Digit), One({"."}), Plus(Digit), WordB>>, "section", 2),
    \* \b\d+\.\d+\.\d+\b
    Entry(<<WordB, Plus(Digit), One({"."}), Plus(Digit), One({"."}), Plus(Digit), WordB>>,
          "clause", 3),
    \* \uff08\d+\uff09  (full-width parentheses U+FF08, U+FF09)
    Entry(<<One({"uff08"}), Plus(Digit), One({"uff09"})>>, "item", 4),
    \* \u6458\s*\u8981
    Entry(<<One({"u6458"}), Star(Whitespace), One({"u8981"})>>, "abstract_ch", 1),
    \* Abstract
    Entry(Lit(<<"A", "b", "s", "t", "r", "a", "c", "t">>), "abstract_en", 1),
    \* \u4f5c\u8005\u4ecb\u7ecd
    Entry(Lit(<<"u4f5c", "u8005", "u4ecb", "u7ecd">>), "author_introduction", -1),
    \* \u76ee\s*\u5f55
    Entry(<<One({"u76ee"}), Star(Whitespace), One({"u5f55"})>>, "table_of_contents", 1),
    \* \u53c2\s*\u8003\s*\u6587\s*\u732e
    Entry(<<One({"u53c2"}), Star(Whitespace), One({"u8003"}), Star(Whitespace),
            One({"u6587"}), Star(Whitespace), One({"u732e"})>>, "references", 1),
    \* \u56fe\s*\u6e05\s*\u5355
    Entry(<<One({"u56fe"}), Star(Whitespace), One({"u6e05"}), Star(Whitespace),
            One({"u5355"})>>, "list_of_figures", 1),
    \* \u8868\s*\u6e05\s*\u5355
    Entry(<<One({"u8868"}), Star(Whitespace), One({"u6e05"}), Star(Whitespace),
            One({"u5355"})>>, "list_of_tables", 1),
    \* \u53d6\u5f97\u7684\u7814\u7a76\u6210\u679c
    Entry(Lit(<<"u53d6", "u5f97", "u7684", "u7814", "u7a76", "u6210", "u679c">>), "research_results", -1) >>

\* ConferencePaperStrategy._define_keywords_config
ConferenceKeywords == <<
    Entry(Lit(<<"A", "b", "s", "t", "r", "a", "c", "t">>), "abstract", 1),
    Entry(Lit(<<"I", "n", "t", "r", "o", "d", "u", "c", "t", "i", "o", "n">>), "introduction", 1),
    \* (Related Work|Background|Literature Review)
    Entry(<<Alt(<<Lit(<<"R", "e", "l", "a", "t", "e", "d", " ", "W", "o", "r", "k">>), Lit(<<"B", "a", "c", "k", "g", "r", "o", "u", "n", "d">>),
                  Lit(<<"L", "i", "t", "e", "r", "a", "t", "u", "r", "e", " ", "R", "e", "v", "i", "e", "w">>)>>)>>, "related_work", 1),
    \* (Method|Methodology|Approach|Proposed Method|Our Approach)
    Entry(<<Alt(<<Lit(<<"M", "e", "t", "h", "o", "d">>), Lit(<<"M", "e", "t", "h", "o", "d", "o", "l", "o", "g", "y">>), Lit(<<"A", "p", "p", "r", "o", "a", "c", "h">>),
                  Lit(<<"P", "r", "o", "p", "o", "s", "e", "d", " ", "M", "e", "t", "h", "o", "d">>), Lit(<<"O", "u", "r", " ", "A", "p", "p", "r", "o", "a", "c", "h">>)>>)>>, "methodology", 1),
    \* (Results|Experiments|Experimental Results|Evaluation)
    Entry(<<Alt(<<Lit(<<"R", "e", "s", "u", "l", "t", "s">>), Lit(<<"E", "x", "p", "e", "r", "i", "m", "e", "n", "t", "s">>), Lit(<<"E", "x", "p", "e", "r", "i", "m", "e", "n", "t", "a", "l", " ", "R", "e", "s", "u", "l", "t", "s">>),
                  Lit(<<"E", "v", "a", "l", "u", "a", "t", "i", "o", "n">>)>>)>>, "results", 1),
    Entry(Lit(<<"D", "i", "s", "c", "u", "s", "s", "i", "o", "n">>), "discussion", 1),
    \* (Conclusion|Conclusions|Concluding Remarks)
    Entry(<<Alt(<<Lit(<<"C", "o", "n", "c", "l", "u", "s", "i", "o", "n">>), Lit(<<"C", "o", "n", "c", "l", "u", "s", "i", "o", "n", "s">>),
                  Lit(<<"C", "o", "n", "c", "l", "u", "d", "i", "n", "g", " ", "R", "e", "m", "a", "r", "k", "s">>)>>)>>, "conclusion", 1),
    Entry(Lit(<<"R", "e", "f", "e", "r", "e", "n", "c", "e", "s">>), "references", 1),
    \* (Acknowledgment|Acknowledgments|Acknowledgement|Acknowledgements)
    Entry(<<Alt(<<Lit(<<"A", "c", "k", "n", "o", "w", "l", "e", "d", "g", "m", "e", "n", "t">>), Lit(<<"A", "c", "k", "n", "o", "w", "l", "e", "d", "g", "m", "e", "n", "t", "s">>),
                  Lit(<<"A", "c", "k", "n", "o", "w", "l", "e", "d", "g", "e", "m", "e", "n", "t">>), Lit(<<"A", "c", "k", "n", "o", "w", "l", "e", "d", "g", "e", "m", "e", "n", "t", "s">>)>>)>>,
          "acknowledgment", 1),
    \* (Appendix|Appendices)
    Entry(<<Alt(<<Lit(<<"A", "p", "p", "e", "n", "d", "i", "x">>), Lit(<<"A", "p", "p", "e", "n", "d", "i", "c", "e", "s">>)>>)>>, "appendix", 1) >>

\* JournalPaperStrategy._define_keywords_config
JournalKeywords == <<
    \* I\.\s+INTRODUCTION
    Entry(Lit(<<"I", ".">>) \o <<Plus(Whitespace)>> \o Lit(<<"I", "N", "T", "R", "O", "D", "U", "C", "T", "I", "O", "N">>), "introduction", 1),
    \* (II|III)\.\s+(RELATED WORK|BACKGROUND)
    Entry(<<Alt(<<Lit(<<"I", "I">>), Lit(<<"I", "I", "I">>)>>), One({"."}), Plus(Whitespace),
            Alt(<<Lit(<<"R", "E", "L", "A", "T", "E", "D", " ", "W", "O", "R", "K">>), Lit(<<"B", "A", "C", "K", "G", "R", "O", "U", "N", "D">>)>>)>>, "related_work", 1),
    \* (III|IV|V)\.\s+(METHOD|METHODOLOGY|PROPOSED)
    Entry(<<Alt(<<Lit(<<"I", "I", "I">>), Lit(<<"I", "V">>), Lit(<<"V">>)>>), One({"."}), Plus(Whitespace),
            Alt(<<Lit(<<"M", "E", "T", "H", "O", "D">>), Lit(<<"M", "E", "T", "H", "O", "D", "O", "L", "O", "G", "Y">>), Lit(<<"P", "R", "O", "P", "O", "S", "E", "D">>)>>)>>,
          "methodology", 1),
    \* (IV|V|VI)\.\s+(RESULT|EXPERIMENT)
    Entry(<<Alt(<<Lit(<<"I", "V">>), Lit(<<"V">>), Lit(<<"V", "I">>)>>), One({"."}), Plus(Whitespace),
            Alt(<<Lit(<<"R", "E", "S", "U", "L", "T">>), Lit(<<"E", "X", "P", "E", "R", "I", "M", "E", "N", "T">>)>>)>>, "results", 1),
    \* (V|VI|VII)\.\s+DISCUSSION
    Entry(<<Alt(<<Lit(<<"V">>), Lit(<<"V", "I">>), Lit(<<"V", "I", "I">>)>>), One({"."}), Plus(Whitespace)>>
              \o Lit(<<"D", "I", "S", "C", "U", "S", "S", "I", "O", "N">>), "discussion", 1),
    \* (VI|VII|VIII|IX|X)\.\s+CONCLUSION
    Entry(<<Alt(<<Lit(<<"V", "I">>), Lit(<<"V", "I", "I">>), Lit(<<"V", "I", "I", "I">>), Lit(<<"I", "X">>), Lit(<<"X">>)>>),
            One({"."}), Plus(Whitespace)>> \o Lit(<<"C", "O", "N", "C", "L", "U", "S", "I", "O", "N">>), "conclusion", 1),
    Entry(Lit(<<"A", "b", "s", "t", "r", "a", "c", "t">>), "abstract", 1),
    \* Index Terms[\u2014\-]  (em dash U+2014 or hyphen)
    Entry(Lit(<<"I", "n", "d", "e", "x", " ", "T", "e", "r", "m", "s">>) \o <<One({"u2014", "-"})>>, "index_terms", -1),
    \* [A-Z]\.\s+[A-Z]
    Entry(<<One(Upper), One({"."}), Plus(Whitespace), One(Upper)>>, "subsection", 2),
    \* (REFERENCES|References)
    Entry(<<Alt(<<Lit(<<"R", "E", "F", "E", "R", "E", "N", "C", "E", "S">>), Lit(<<"R", "e", "f", "e", "r", "e", "n", "c", "e", "s">>)>>)>>, "references", 1),
    \* (ACKNOWLEDGMENT|ACKNOWLEDGEMENT)
    Entry(<<Alt(<<Lit(<<"A", "C", "K", "N", "O", "W", "L", "E", "D", "G", "M", "E", "N", "T">>), Lit(<<"A", "C", "K", "N", "O", "W", "L", "E", "D", "G", "E", "M", "E", "N", "T">>)>>)>>,
          "acknowledgment", 1),
    \* [IVX]+\.\s+[A-Z]
    Entry(<<Plus(Roman), One({"."}), Plus(Whitespace), One(Upper)>>, "section", 1) >>

\* self.keywords_config of the strategy class named by table
KeywordsConfig(table_) ==
    CASE table_ = "thesis" -> ThesisKeywords
      [] table_ = "conference" -> ConferenceKeywords
      [] table_ = "journal" -> JournalKeywords

\* The result of _match_keyword_level: found is "level is not None"; (None, None)
\* is NoMatch, whose level field is never read.
NoMatch == [found |-> FALSE, level |-> 0, description |-> None]

\* A faulty variant of MatchFrom: the loop does not stop at the first match, so
\* the last matching entry wins.
RECURSIVE MatchFromLast(_, _, _)
MatchFromLast(config, k, text) ==
    IF k > Len(config) THEN NoMatch
    ELSE LET later == MatchFromLast(config, k + 1, text)
         IN  IF later.found THEN later
             ELSE IF ReSearch(config[k].keyword, text, NoFlags)
             THEN [found |-> TRUE, level |-> config[k].level,
                   description |-> config[k].description]
             ELSE NoMatch

\* the loop "for config in self.keywords_config" of _match_keyword_level, from the
\* k-th entry on
RECURSIVE MatchFrom(_, _, _)
MatchFrom(config, k, text) ==
    IF k > Len(config) THEN NoMatch
    ELSE IF ReSearch(config[k].keyword, text, NoFlags)
         THEN [found |-> TRUE, level |-> config[k].level,
               description |-> config[k].description]
         ELSE MatchFrom(config, k + 1, text)

\* ParsingStrategy._match_keyword_level
MatchKeywordLevel(config, text) == MatchFrom(config, 1, text)

----------------------------------------------------------------------------
(* The input.  A parse call gets a list of lines; the loop reads it from   *)
(* front to back and never looks ahead, so the model fixes the length      *)
(* len_lines at the call and draws each line when the loop first reads it: *)
(* lines is the part of the list read so far.                              *)

MaxLines == 5

ThesisLines == {
    <<"#", " ", "u535a", "u58eb", "u5b66", "u4f4d", "u8bba", "u6587">>, <<" ", "a", "b">>, <<"#", " ", "u7b2c", "u4e00", "u7ae0">>, <<"#", "#", " ", "1", ".", "1">>, <<"#", " ", "u53c2", "u8003", "u6587", "u732e">>,
    <<"#", " ", "u4f5c", "u8005", "u4ecb", "u7ecd">>, <<"#", " ", "u81f4", "u8c22">>, <<"u53c2", "u8003", "u6587", "u732e">> }

ConferenceLines == {
    <<"#", " ", "T">>, <<" ", "a", "b">>, <<"#", " ", "A", "b", "s", "t", "r", "a", "c", "t">>, <<"#", "#", " ", "S", "e", "t", "u", "p">>, <<"#", "#", "#", " ", "D">>, <<"#", "#", "#", "#", " ", "E">>,
    <<"#", " ", "R", "e", "f", "e", "r", "e", "n", "c", "e", "s">>, <<"#", " ", "A", "p", "p", "e", "n", "d", "i", "x">> }

JournalLines == {
    <<"#", " ", "T">>, <<" ", "a", "b">>, <<"#", " ", "A", "b", "s", "t", "r", "a", "c", "t">>, <<"#", " ", "I", "I", ".", " ", "S", "Y", "S", "T", "E", "M">>, <<"#", "#", " ", "A", ".", " ", "S">>,
    <<"I", "n", "d", "e", "x", " ", "T", "e", "r", "m", "s", "-", "x">>, <<"#", " ", "I", "n", "d", "e", "x", " ", "T", "e", "r", "m", "s", "-", "x">>, <<"#", " ", "R", "E", "F", "E", "R", "E", "N", "C", "E", "S">>, <<"#", "#", "#", " ", "x">>,
    <<"#", " ", "A", "C", "K", "N", "O", "W", "L", "E", "D", "G", "M", "E", "N", "T">> }

GenericThesisLines == {
    <<" ", "a", "b">>, <<"#", " ", "u7b2c", "u4e00", "u7ae0">>, <<"#", "#", " ", "1", ".", "1">>, <<"#", "#", "#", " ", "1", ".", "1", ".", "1">>, <<"#", "#", "#", "#", " ", "uff08", "1", "uff09">>, <<"#", " ", "u4f5c", "u8005", "u4ecb", "u7ecd">>,
    <<"#", " ", "u81f4", "u8c22">> }

GenericConferenceLines == { <<" ", "a", "b">>, <<"#", " ", "A", "b", "s", "t", "r", "a", "c", "t">>, <<"#", " ", "R", "e", "f", "e", "r", "e", "n", "c", "e", "s">>, <<"#", "#", " ", "S", "e", "t", "u", "p">> }

GenericJournalLines == {
    <<" ", "a", "b">>, <<"#", " ", "I", ".", " ", "I", "N", "T", "R", "O", "D", "U", "C", "T", "I", "O", "N">>, <<"#", "#", " ", "A", ".", " ", "S">>, <<"#", " ", "I", "n", "d", "e", "x", " ", "T", "e", "r", "m", "s", "-", "x">>, <<"#", " ", "T">> }

Catalogue(b, t) ==
    CASE b = "thesis" -> ThesisLines
      [] b = "conference" -> ConferenceLines
      [] b = "journal" -> JournalLines
      [] b = "generic" /\ t = "thesis" -> GenericThesisLines
      [] b = "generic" /\ t = "conference" -> GenericConferenceLines
      [] b = "generic" /\ t = "journal" -> GenericJournalLines

Tables == {"thesis", "conference", "journal"}

\* the texts classified on their own: a heading prefix and a heading text
ClassifyHeads == <<<<>>, <<"#", " ">>, <<"#", "#", "#", " ">>>>
ClassifyBodies ==
    {<<"u7b2c", "u4e00", "u7ae0">>, <<"u7b2c", "1", ".", "1", "u8282">>, <<"1", ".", "1">>, <<"1", ".", "1", ".", "1">>, <<"uff08", "1", "uff09">>, <<"u6458", " ", "u8981">>,
     <<"A", "b", "s", "t", "r", "a", "c", "t">>, <<"u53c2", "u8003", "u6587", "u732e">>, <<"u4f5c", "u8005", "u4ecb", "u7ecd">>, <<"u81f4", "u8c22">>, <<"I", ".", " ", "I", "N", "T", "R", "O", "D", "U", "C", "T", "I", "O", "N">>,
     <<"I", "I", ".", " ", "S", "Y", "S", "T", "E", "M">>, <<"I", "I", ".", " ", "B", "A", "C", "K", "G", "R", "O", "U", "N", "D">>, <<"A", ".", " ", "S", "e", "t", "u", "p">>, <<"V", ".", " ", "D", "I", "S", "C", "U", "S", "S", "I", "O", "N">>,
     <<"I", "n", "d", "e", "x", " ", "T", "e", "r", "m", "s", "-", "x">>, <<"R", "E", "F", "E", "R", "E", "N", "C", "E", "S">>, <<"R", "e", "f", "e", "r", "e", "n", "c", "e", "s">>,
     <<"E", "x", "p", "e", "r", "i", "m", "e", "n", "t", "a", "l", " ", "R", "e", "s", "u", "l", "t", "s">>, <<"O", "u", "r", " ", "A", "p", "p", "r", "o", "a", "c", "h">>, <<"I", "n", "t", "r", "o", "d", "u", "c", "t", "i", "o", "n">>, <<"T">>}
ClassifyTexts == {ClassifyHeads[h] \o b : h \in DOMAIN ClassifyHeads, b \in ClassifyBodies}

\* every line the loops can read, as the loops see it (after line.strip()), and
\* every text classified on its own, in groups
LineGroups == <<
    {Strip(l) : l \in ThesisLines}, {Strip(l) : l \in ConferenceLines},
    {Strip(l) : l \in JournalLines}, {Strip(l) : l \in GenericThesisLines},
    {Strip(l) : l \in GenericConferenceLines}, {Strip(l) : l \in GenericJournalLines},
    {ClassifyHeads[1] \o b : b \in ClassifyBodies},
    {ClassifyHeads[2] \o b : b \in ClassifyBodies},
    {ClassifyHeads[3] \o b : b \in ClassifyBodies} >>

\* self._match_keyword_level(line) of an instance of the class with the table
\* config, tabulated once for the lines of a group and for all groups
RECURSIVE LevelsOf(_, _), LevelsOfGroups(_, _)
LevelsOf(config, ls) ==
    IF ls = {} THEN <<>>
    ELSE LET l == CHOOSE x \in ls : TRUE
         IN  (l :> MatchKeywordLevel(config, l)) @@ LevelsOf(config, ls \ {l})
LevelsOfGroups(config, g) ==
    IF g > Len(LineGroups) THEN <<>>
    ELSE LevelsOf(config, LineGroups[g]) @@ LevelsOfGroups(config, g + 1)
KeywordLevels ==
    ("thesis" :> LevelsOfGroups(ThesisKeywords, 1))
        @@ ("conference" :> LevelsOfGroups(ConferenceKeywords, 1))
        @@ ("journal" :> LevelsOfGroups(JournalKeywords, 1))
KeywordLevel(table_, line) == KeywordLevels[table_][line]
----------------------------------------------------------------------------
(* The tree builders.  Nodes are heap objects: nodes[id] is the dict of    *)
(* the id-th node created, and tree, node_stack and each children list     *)
(* hold ids (references).  s is the record of the locals of one parse      *)
(* call: i, stage, metadata, nodes, tree, node_stack, last_part,           *)
(* last_description, and err, set when a statement raises.                 *)

\* dict assignment m[k] = v
Put(m, k, v) == [x \in DOMAIN m \cup {k} |-> IF x = k THEN v ELSE m[x]]

\* metadata[key] += text; raises KeyError when key is absent
MetaAppend(s, key, text) ==
    IF key \in DOMAIN s.metadata
    THEN [s EXCEPT !.metadata = Put(@, key, @[key] \o text)]
    ELSE [s EXCEPT !.err = TRUE]

\* title.strip("# ").strip()
Title(line) == Strip(StripChars(line, {"#", " "}))

\* A faulty variant of PopStack: the loop test is > where the code has >=, so an
\* open node of the same level is not closed.
RECURSIVE PopStackStrict(_, _, _)
PopStackStrict(nodes_, stack, level) ==
    IF stack # <<>> /\ nodes_[stack[Len(stack)]].level > level
    THEN PopStackStrict(nodes_, SubSeq(stack, 1, Len(stack) - 1), level)
    ELSE stack

\* while node_stack and node_stack[-1]["level"] >= level: node_stack.pop()
RECURSIVE PopStack(_, _, _)
PopStack(nodes_, stack, level) ==
    IF stack # <<>> /\ nodes_[stack[Len(stack)]].level >= level
    THEN PopStack(nodes_, SubSeq(stack, 1, Len(stack) - 1), level)
    ELSE stack

\* A faulty variant of AddNode: the new node is hung below the outermost open
\* node that is left, not below the innermost.
AddNodeOutermost(s, level, description, title, line_num) ==
    LET node == [level |-> level, description |-> description, title |-> Title(title),
                 line |-> line_num, content |-> <<>>, children |-> <<>>]
        id == Len(s.nodes) + 1
        stack == PopStack(s.nodes, s.node_stack, level)
        attach == stack # <<>> /\ level > 0
    IN  [s EXCEPT
            !.nodes = Append(IF attach
                             THEN [@ EXCEPT ![stack[1]].children = Append(@, id)]
                             ELSE @, node),
            !.tree = IF attach THEN @ ELSE Append(@, id),
            !.node_stack = Append(stack, id)]

\* A faulty variant of AddNode: a node that is hung below an open node is not
\* pushed on the stack.
AddNodeNestedNotPushed(s, level, description, title, line_num) ==
    LET node == [level |-> level, description |-> description, title |-> Title(title),
                 line |-> line_num, content |-> <<>>, children |-> <<>>]
        id == Len(s.nodes) + 1
        stack == PopStack(s.nodes, s.node_stack, level)
        attach == stack # <<>> /\ level > 0
    IN  [s EXCEPT
            !.nodes = Append(IF attach
                             THEN [@ EXCEPT ![stack[Len(stack)]].children = Append(@, id)]
                             ELSE @, node),
            !.tree = IF attach THEN @ ELSE Append(@, id),
            !.node_stack = IF attach THEN stack ELSE Append(stack, id)]

\* A faulty variant of AddNode: the new node is put first, not last, in the
\* children list or in tree.
AddNodeFirst(s, level, description, title, line_num) ==
    LET node == [level |-> level, description |-> description, title |-> Title(title),
                 line |-> line_num, content |-> <<>>, children |-> <<>>]
        id == Len(s.nodes) + 1
        stack == PopStack(s.nodes, s.node_stack, level)
        attach == stack # <<>> /\ level > 0
    IN  [s EXCEPT
            !.nodes = Append(IF attach
                             THEN [@ EXCEPT ![stack[Len(stack)]].children = <<id>> \o @]
                             ELSE @, node),
            !.tree = IF attach THEN @ ELSE <<id>> \o @,
            !.node_stack = Append(stack, id)]

\* add_node, identical in the four builders
AddNode(s, level, description, title, line_num) ==
    LET node == [level |-> level, description |-> description, title |-> Title(title),
                 line |-> line_num, content |-> <<>>, children |-> <<>>]
        id == Len(s.nodes) + 1
        stack == PopStack(s.nodes, s.node_stack, level)
        attach == stack # <<>> /\ level > 0
    IN  [s EXCEPT
            !.nodes = Append(IF attach
                             THEN [@ EXCEPT ![stack[Len(stack)]].children = Append(@, id)]
                             ELSE @, node),
            !.tree = IF attach THEN @ ELSE Append(@, id),
            !.node_stack = Append(stack, id)]

\* A faulty variant of AddContent: the text goes to the outermost open node, so a
\* node keeps collecting the lines of the nodes nested in it.
AddContentOutermost(s, line) ==
    IF s.node_stack # <<>>
    THEN [s EXCEPT !.nodes[s.node_stack[1]].content = @ \o Strip(line) \o <<"\n">>]
    ELSE s

\* add_content of _generic_parse and of the thesis parse
AddContent(s, line) ==
    IF s.node_stack # <<>>
    THEN [s EXCEPT !.nodes[s.node_stack[Len(s.node_stack)]].content =
                        @ \o Strip(line) \o <<"\n">>]
    ELSE s

\* add_content of the conference and journal parse
AddContentAuthors(s, line) ==
    IF s.node_stack # <<>>
    THEN [s EXCEPT !.nodes[s.node_stack[Len(s.node_stack)]].content =
                        @ \o Strip(line) \o <<"\n">>]
    ELSE IF s.stage = 2 /\ "authors" \in DOMAIN s.metadata
    THEN MetaAppend(s, "authors", Strip(line) \o <<"\n">>)
    ELSE s

IsHeading(line) == StartsWith(line, <<"#">>)

\* A faulty variant of GenericIter: a heading that the table does not classify
\* is skipped, not taken as content.
GenericIterHeadingsSkipped(s, table_, raw) ==
    LET line == Strip(raw)
        m == KeywordLevel(table_, line)
        t == IF IsHeading(line)
             THEN IF m.found THEN AddNode(s, m.level, m.description, line, s.i) ELSE s
             ELSE AddContent(s, line)
    IN  [t EXCEPT !.i = @ + 1]

\* one iteration of the for loop of ParsingStrategy._generic_parse
GenericIter(s, table_, raw) ==
    LET line == Strip(raw)
        m == KeywordLevel(table_, line)
        t == IF IsHeading(line) /\ m.found
             THEN AddNode(s, m.level, m.description, line, s.i)
             ELSE AddContent(s, line)
    IN  [t EXCEPT !.i = @ + 1]

\* \u535a\s*\u58eb\s*\u5b66\s*\u4f4d\s*\u8bba\s*\u6587
ThesisMarker ==
    <<One({"u535a"}), Star(Whitespace), One({"u58eb"}), Star(Whitespace), One({"u5b66"}),
      Star(Whitespace), One({"u4f4d"}), Star(Whitespace), One({"u8bba"}), Star(Whitespace),
      One({"u6587"})>>

\* ^\s*\u53c2\s*\u8003\s*\u6587\s*\u732e\s*$
BareReferences ==
    <<Bol, Star(Whitespace), One({"u53c2"}), Star(Whitespace), One({"u8003"}),
      Star(Whitespace), One({"u6587"}), Star(Whitespace), One({"u732e"}), Star(Whitespace),
      Eol>>

\* A faulty variant of ThesisBody: a references heading is attached and the flag
\* last_part is left as it was, so the headings after it are attached too.
ThesisBodyFlagUnset(s, line) ==
    IF IsHeading(line)
    THEN LET m == KeywordLevel("thesis", line)
         IN  IF m.found THEN AddNode(s, m.level, m.description, line, s.i)
             ELSE AddContent(s, line)
    ELSE IF ~ReSearch(BareReferences, line, NoFlags) THEN AddContent(s, line)
    ELSE AddNode([s EXCEPT !.last_part = TRUE], 1, "references", line, s.i)

\* stage 3 of the thesis parse, for a line that does not force the trailer
ThesisBody(s, line) ==
    IF IsHeading(line)
    THEN LET m == KeywordLevel("thesis", line)
             t == IF m.description = "references" THEN [s EXCEPT !.last_part = TRUE] ELSE s
         IN  IF m.found THEN AddNode(t, m.level, m.description, line, s.i)
             ELSE AddContent(t, line)
    ELSE IF ~ReSearch(BareReferences, line, NoFlags) THEN AddContent(s, line)
    ELSE AddNode([s EXCEPT !.last_part = TRUE], 1, "references", line, s.i)

\* A faulty variant of ThesisTrailer: a heading that the table classifies with a
\* positive level is still attached to the tree, and selects no bucket.
ThesisTrailerAttaching(s, line) ==
    LET m == KeywordLevel("thesis", line)
        key == IF IsHeading(line)
               THEN IF m.found THEN m.description ELSE "raw"
               ELSE s.last_description
        t == [s EXCEPT !.last_description = key,
                       !.metadata = IF key \in DOMAIN @ THEN @ ELSE Put(@, key, <<>>)]
    IN  IF IsHeading(line) /\ m.found /\ m.level > 0
        THEN AddNode(s, m.level, m.description, line, s.i)
        ELSE MetaAppend(t, key, IF IsHeading(line) THEN <<"\n">> \o Strip(line) \o <<"\n">>
                                ELSE Strip(line) \o <<"\n">>)

\* A faulty variant of ThesisTrailer: every line goes to the bucket "raw".
ThesisTrailerRawOnly(s, line) ==
    LET t == [s EXCEPT !.last_description = "raw",
                       !.metadata = IF "raw" \in DOMAIN @ THEN @ ELSE Put(@, "raw", <<>>)]
    IN  MetaAppend(t, "raw", IF IsHeading(line) THEN <<"\n">> \o Strip(line) \o <<"\n">>
                             ELSE Strip(line) \o <<"\n">>)

\* A faulty variant of ThesisTrailer: a chapter heading read in stage 4 sets the
\* stage back to 3.
ThesisTrailerBackToBody(s, line) ==
    LET m == KeywordLevel("thesis", line)
        key == IF IsHeading(line)
               THEN IF m.found THEN m.description ELSE "raw"
               ELSE s.last_description
        t == [s EXCEPT !.last_description = key,
                       !.metadata = IF key \in DOMAIN @ THEN @ ELSE Put(@, key, <<>>),
                       !.stage = IF key = "chapter" THEN 3 ELSE @]
    IN  MetaAppend(t, key, IF IsHeading(line) THEN <<"\n">> \o Strip(line) \o <<"\n">>
                           ELSE Strip(line) \o <<"\n">>)

\* stage 4 of the thesis parse
ThesisTrailer(s, line) ==
    LET m == KeywordLevel("thesis", line)
        key == IF IsHeading(line)
               THEN IF m.found THEN m.description ELSE "raw"
               ELSE s.last_description
        t == [s EXCEPT !.last_description = key,
                       !.metadata = IF key \in DOMAIN @ THEN @ ELSE Put(@, key, <<>>)]
    IN  MetaAppend(t, key, IF IsHeading(line) THEN <<"\n">> \o Strip(line) \o <<"\n">>
                           ELSE Strip(line) \o <<"\n">>)

\* A faulty variant of ThesisIter: the title stage passes over heading lines
\* and takes the first line that is no heading as the title.
ThesisIterTitleNoHeading(s, raw) ==
    LET line == Strip(raw)
        next(t) == [t EXCEPT !.i = @ + 1]
    IN  IF s.stage = 0
        THEN IF IsHeading(line) /\ ReSearch(ThesisMarker, line, IgnoreCase)
             THEN next([s EXCEPT !.stage = 1])
             ELSE next(s)
        ELSE IF s.stage = 1 /\ IsHeading(line)
        THEN next(s)
        ELSE IF s.stage = 1
        THEN next([s EXCEPT
                 !.metadata = Put(Put(@, "title", Title(line)), "raw",
                                  <<"#", " ", "t", "i", "t", "l", "e", ":", " ">> \o Title(line) \o <<"\n", "\n">>),
                 !.stage = 2])
        ELSE IF s.stage = 2
        THEN IF IsHeading(line)
             THEN MetaAppend([s EXCEPT !.stage = 3], "raw", <<"\n">>)
             ELSE next(MetaAppend(s, "raw", line \o <<"\n">>))
        ELSE IF s.stage = 3
        THEN IF IsHeading(line) /\ s.last_part
             THEN [s EXCEPT !.stage = 4]
             ELSE next(ThesisBody(s, line))
        ELSE IF s.stage = 4
        THEN next(ThesisTrailer(s, line))
        ELSE next(s)

\* A faulty variant of ThesisIter: a heading read after the references leaves
\* the stage as it is and the index too.
ThesisIterSameStage(s, raw) ==
    LET line == Strip(raw)
        next(t) == [t EXCEPT !.i = @ + 1]
    IN  IF s.stage = 0
        THEN IF IsHeading(line) /\ ReSearch(ThesisMarker, line, IgnoreCase)
             THEN next([s EXCEPT !.stage = 1])
             ELSE next(s)
        ELSE IF s.stage = 1
        THEN next([s EXCEPT
                 !.metadata = Put(Put(@, "title", Title(line)), "raw",
                                  <<"#", " ", "t", "i", "t", "l", "e", ":", " ">> \o Title(line) \o <<"\n", "\n">>),
                 !.stage = 2])
        ELSE IF s.stage = 2
        THEN IF IsHeading(line)
             THEN MetaAppend([s EXCEPT !.stage = 3], "raw", <<"\n">>)
             ELSE next(MetaAppend(s, "raw", line \o <<"\n">>))
        ELSE IF s.stage = 3
        THEN IF IsHeading(line) /\ s.last_part
             THEN s
             ELSE next(ThesisBody(s, line))
        ELSE IF s.stage = 4
        THEN next(ThesisTrailer(s, line))
        ELSE next(s)

\* A faulty variant of ThesisIter: the heading that ends stage 3 is consumed by
\* the transition (i advances), so stage 4 starts at the line after it.
ThesisIterTrailerSkips(s, raw) ==
    LET line == Strip(raw)
        next(t) == [t EXCEPT !.i = @ + 1]
    IN  IF s.stage = 0
        THEN IF IsHeading(line) /\ ReSearch(ThesisMarker, line, IgnoreCase)
             THEN next([s EXCEPT !.stage = 1])
             ELSE next(s)
        ELSE IF s.stage = 1
        THEN next([s EXCEPT
                 !.metadata = Put(Put(@, "title", Title(line)), "raw",
                                  <<"#", " ", "t", "i", "t", "l", "e", ":", " ">> \o Title(line) \o <<"\n", "\n">>),
                 !.stage = 2])
        ELSE IF s.stage = 2
        THEN IF IsHeading(line)
             THEN MetaAppend([s EXCEPT !.stage = 3], "raw", <<"\n">>)
             ELSE next(MetaAppend(s, "raw", line \o <<"\n">>))
        ELSE IF s.stage = 3
        THEN IF IsHeading(line) /\ s.last_part
             THEN next([s EXCEPT !.stage = 4])
             ELSE next(ThesisBody(s, line))
        ELSE IF s.stage = 4
        THEN next(ThesisTrailer(s, line))
        ELSE next(s)

\* one iteration of the while loop of ThesisParsingStrategy.parse
ThesisIter(s, raw) ==
    LET line == Strip(raw)
        next(t) == [t EXCEPT !.i = @ + 1]
    IN  IF s.stage = 0
        THEN IF IsHeading(line) /\ ReSearch(ThesisMarker, line, IgnoreCase)
             THEN next([s EXCEPT !.stage = 1])
             ELSE next(s)
        ELSE IF s.stage = 1
        THEN next([s EXCEPT
                 !.metadata = Put(Put(@, "title", Title(line)), "raw",
                                  <<"#", " ", "t", "i", "t", "l", "e", ":", " ">> \o Title(line) \o <<"\n", "\n">>),
                 !.stage = 2])
        ELSE IF s.stage = 2
        THEN IF IsHeading(line)
             THEN MetaAppend([s EXCEPT !.stage = 3], "raw", <<"\n">>)
             ELSE next(MetaAppend(s, "raw", line \o <<"\n">>))
        ELSE IF s.stage = 3
        THEN IF IsHeading(line) /\ s.last_part
             THEN [s EXCEPT !.stage = 4]
             ELSE next(ThesisBody(s, line))
        ELSE IF s.stage = 4
        THEN next(ThesisTrailer(s, line))
        ELSE next(s)

\* any(keyword in title for keyword in words)
AnyIn(title, words) == \E k \in DOMAIN words : Contains(title, words[k])

\* A faulty variant of ConferenceBody: once a references node exists, a heading
\* is no longer attached: it is taken as content.
ConferenceBodyClosing(s, line) ==
    IF /\ s.stage >= 1 /\ IsHeading(line)
       /\ \E n \in DOMAIN s.nodes : s.nodes[n].description = "references"
    THEN AddContentAuthors(s, line)
    ELSE
    IF s.stage >= 1 /\ IsHeading(line)
    THEN LET m == KeywordLevel("conference", line)
             heading_level == LeadingHashes(line)
         IN  IF m.found
             THEN AddNode([s EXCEPT !.stage = 3], m.level, m.description, line, s.i)
             ELSE IF heading_level = 1
             THEN IF AnyIn(Title(line), <<<<"P", "r", "e", "l", "i", "m", "i", "n", "a", "r", "y">>, <<"P", "r", "e", "l", "i", "m", "i", "n", "a", "r", "i", "e", "s">>,
                                          <<"N", "o", "t", "a", "t", "i", "o", "n">>, <<"P", "r", "o", "b", "l", "e", "m">>>>)
                  THEN AddNode(s, 1, "preliminaries", line, s.i)
                  ELSE IF AnyIn(Title(line), <<<<"L", "i", "m", "i", "t", "a", "t", "i", "o", "n">>, <<"F", "u", "t", "u", "r", "e", " ", "W", "o", "r", "k">>,
                                               <<"F", "u", "t", "u", "r", "e">>>>)
                  THEN AddNode(s, 1, "limitations", line, s.i)
                  ELSE AddNode(s, 1, "section", line, s.i)
             ELSE IF heading_level = 2 THEN AddNode(s, 2, "subsection", line, s.i)
             ELSE IF heading_level = 3 THEN AddNode(s, 3, "subsubsection", line, s.i)
             ELSE AddContentAuthors(s, line)
    ELSE IF s.stage >= 2 THEN AddContentAuthors(s, line)
    ELSE s

\* A faulty variant of ConferenceBody: an unclassified heading of three "#" is
\* taken as content, as the journal parse takes it.
ConferenceBodyTwoLevels(s, line) ==
    IF s.stage >= 1 /\ IsHeading(line)
    THEN LET m == KeywordLevel("conference", line)
             heading_level == LeadingHashes(line)
         IN  IF m.found
             THEN AddNode([s EXCEPT !.stage = 3], m.level, m.description, line, s.i)
             ELSE IF heading_level = 1
             THEN IF AnyIn(Title(line), <<<<"P", "r", "e", "l", "i", "m", "i", "n", "a", "r", "y">>, <<"P", "r", "e", "l", "i", "m", "i", "n", "a", "r", "i", "e", "s">>,
                                          <<"N", "o", "t", "a", "t", "i", "o", "n">>, <<"P", "r", "o", "b", "l", "e", "m">>>>)
                  THEN AddNode(s, 1, "preliminaries", line, s.i)
                  ELSE IF AnyIn(Title(line), <<<<"L", "i", "m", "i", "t", "a", "t", "i", "o", "n">>, <<"F", "u", "t", "u", "r", "e", " ", "W", "o", "r", "k">>,
                                               <<"F", "u", "t", "u", "r", "e">>>>)
                  THEN AddNode(s, 1, "limitations", line, s.i)
                  ELSE AddNode(s, 1, "section", line, s.i)
             ELSE IF heading_level = 2 THEN AddNode(s, 2, "subsection", line, s.i)
             ELSE AddContentAuthors(s, line)
    ELSE IF s.stage >= 2 THEN AddContentAuthors(s, line)
    ELSE s

\* "Stage 2+" of the conference parse: the second if statement of the loop body
ConferenceBody(s, line) ==
    IF s.stage >= 1 /\ IsHeading(line)
    THEN LET m == KeywordLevel("conference", line)
             heading_level == LeadingHashes(line)
         IN  IF m.found
             THEN AddNode([s EXCEPT !.stage = 3], m.level, m.description, line, s.i)
             ELSE IF heading_level = 1
             THEN IF AnyIn(Title(line), <<<<"P", "r", "e", "l", "i", "m", "i", "n", "a", "r", "y">>, <<"P", "r", "e", "l", "i", "m", "i", "n", "a", "r", "i", "e", "s">>,
                                          <<"N", "o", "t", "a", "t", "i", "o", "n">>, <<"P", "r", "o", "b", "l", "e", "m">>>>)
                  THEN AddNode(s, 1, "preliminaries", line, s.i)
                  ELSE IF AnyIn(Title(line), <<<<"L", "i", "m", "i", "t", "a", "t", "i", "o", "n">>, <<"F", "u", "t", "u", "r", "e", " ", "W", "o", "r", "k">>,
                                               <<"F", "u", "t", "u", "r", "e">>>>)
                  THEN AddNode(s, 1, "limitations", line, s.i)
                  ELSE AddNode(s, 1, "section", line, s.i)
             ELSE IF heading_level = 2 THEN AddNode(s, 2, "subsection", line, s.i)
             ELSE IF heading_level = 3 THEN AddNode(s, 3, "subsubsection", line, s.i)
             ELSE AddContentAuthors(s, line)
    ELSE IF s.stage >= 2 THEN AddContentAuthors(s, line)
    ELSE s

\* A faulty variant of TitleAndAuthors: stage 0 stores the title and does not
\* create the key "authors".
TitleWithoutAuthors(s, line, ends) ==
    IF s.stage = 0
    THEN IF StartsWith(line, <<"#", " ">>)
         THEN [s EXCEPT !.metadata = Put(@, "title", Title(line)), !.stage = 1]
         ELSE s
    ELSE IF s.stage = 1
    THEN IF ends THEN [s EXCEPT !.stage = 2]
         ELSE MetaAppend(s, "authors", line \o <<"\n">>)
    ELSE s

\* A faulty variant of TitleAndAuthors: stage 0 takes the first line starting
\* with "#" as the title, with or without a space after it.
TitleAndAuthorsAnyHeading(s, line, ends) ==
    IF s.stage = 0
    THEN IF IsHeading(line)
         THEN [s EXCEPT !.metadata = Put(Put(@, "title", Title(line)), "authors", <<>>),
                        !.stage = 1]
         ELSE s
    ELSE IF s.stage = 1
    THEN IF ends THEN [s EXCEPT !.stage = 2]
         ELSE MetaAppend(s, "authors", line \o <<"\n">>)
    ELSE s

\* stages 0 and 1 of the conference and journal parse: the first if statement
\* of the loop body; ends is the test that ends stage 1
TitleAndAuthors(s, line, ends) ==
    IF s.stage = 0
    THEN IF StartsWith(line, <<"#", " ">>)
         THEN [s EXCEPT !.metadata = Put(Put(@, "title", Title(line)), "authors", <<>>),
                        !.stage = 1]
         ELSE s
    ELSE IF s.stage = 1
    THEN IF ends THEN [s EXCEPT !.stage = 2]
         ELSE MetaAppend(s, "authors", line \o <<"\n">>)
    ELSE s

\* A faulty variant of ConferenceIter: the "Stage 2+" statement is an elif of the
\* stage tests, so the title line found in stage 0 is not attached to the tree.
ConferenceIterElif(s, raw) ==
    LET line == Strip(raw)
        ends == StartsWith(line, <<"#", " ">>)
        t == TitleAndAuthors(s, line, ends)
    IN  IF s.stage = 1 /\ ends THEN t
        ELSE IF s.stage = 0 THEN [t EXCEPT !.i = @ + 1]
        ELSE [ConferenceBody(t, line) EXCEPT !.i = @ + 1]

\* one iteration of the while loop of ConferencePaperStrategy.parse
ConferenceIter(s, raw) ==
    LET line == Strip(raw)
        ends == StartsWith(line, <<"#", " ">>)
        t == TitleAndAuthors(s, line, ends)
    IN  IF s.stage = 1 /\ ends THEN t
        ELSE [ConferenceBody(t, line) EXCEPT !.i = @ + 1]

\* ^# [IVX]+\.
RomanHeading == <<Bol>> \o Lit(<<"#", " ">>) \o <<Plus(Roman), One({"."})>>

\* "Stage 2+" of the journal parse: the second if statement of the loop body
JournalBody(s, line) ==
    IF s.stage >= 1 /\ IsHeading(line)
    THEN LET m == KeywordLevel("journal", line)
             heading_level == LeadingHashes(line)
         IN  IF m.description = "abstract"
             THEN AddNode([s EXCEPT !.stage = 3], 1, "abstract", line, s.i)
             ELSE IF m.found
             THEN AddNode([s EXCEPT !.stage = 3], m.level, m.description, line, s.i)
             ELSE IF heading_level = 1 THEN AddNode(s, 1, "section", line, s.i)
             ELSE IF heading_level = 2 THEN AddNode(s, 2, "subsection", line, s.i)
             ELSE AddContentAuthors(s, line)
    ELSE IF s.stage >= 2
    THEN IF Contains(line, <<"I", "n", "d", "e", "x", " ", "T", "e", "r", "m", "s">>) /\ "index_terms" \notin DOMAIN s.metadata
         THEN [s EXCEPT !.metadata = Put(@, "index_terms", line)]
         ELSE AddContentAuthors(s, line)
    ELSE s

\* one iteration of the while loop of JournalPaperStrategy.parse
JournalIter(s, raw) ==
    LET line == Strip(raw)
        ends == StartsWith(line, <<"#", " ", "A", "b", "s", "t", "r", "a", "c", "t">>) \/ ReMatch(RomanHeading, line, NoFlags)
        t == TitleAndAuthors(s, line, ends)
    IN  IF s.stage = 1 /\ ends THEN t
        ELSE [JournalBody(t, line) EXCEPT !.i = @ + 1]

----------------------------------------------------------------------------
(* The query layer of MarkdownParser.  kwargs is the keyword dict of a      *)
(* call, a sequence of <<key, value>> pairs in the order they were given.   *)

\* A faulty variant of MatchesFrom: a node matches as soon as one criterion
\* holds (or when there is none).
MatchesAnyFrom(node, kwargs_, k) ==
    \/ k > Len(kwargs_)
    \/ \E j \in k..Len(kwargs_) :
          LET key == kwargs_[j][1]
              value == kwargs_[j][2]
          IN  ~ \/ key = "level" /\ node.level # value
                \/ key = "description" /\ node.description # value
                \/ key = "title" /\ ~Contains(node.title, value)
                \/ key = "exact_title" /\ value # node.title

\* the body of the loop "for key, value in kwargs.items()" in _find_nodes,
\* from the k-th item on: FALSE as soon as one test fails
RECURSIVE MatchesFrom(_, _, _)
MatchesFrom(node, kwargs_, k) ==
    IF k > Len(kwargs_) THEN TRUE
    ELSE LET key == kwargs_[k][1]
             value == kwargs_[k][2]
         IN  IF key = "level" /\ node.level # value THEN FALSE
             ELSE IF key = "description" /\ node.description # value THEN FALSE
             ELSE IF key = "title" /\ ~Contains(node.title, value) THEN FALSE
             ELSE IF key = "exact_title" /\ value # node.title THEN FALSE
             ELSE MatchesFrom(node, kwargs_, k + 1)

\* A faulty variant of FindNodes: the children of a matching node are not
\* searched.
RECURSIVE FindNodesShallow(_, _, _)
FindNodesShallow(nodes_, ids, kwargs_) ==
    IF ids = <<>> THEN <<>>
    ELSE LET n == Head(ids)
             here == IF MatchesFrom(nodes_[n], kwargs_, 1) THEN <<n>>
                     ELSE FindNodesShallow(nodes_, nodes_[n].children, kwargs_)
         IN  here \o FindNodesShallow(nodes_, Tail(ids), kwargs_)

\* MarkdownParser._find_nodes(nodes, **kwargs); ids is the list searched
RECURSIVE FindNodes(_, _, _)
FindNodes(nodes_, ids, kwargs_) ==
    IF ids = <<>> THEN <<>>
    ELSE LET n == Head(ids)
             here == IF MatchesFrom(nodes_[n], kwargs_, 1) THEN <<n>> ELSE <<>>
             below == IF nodes_[n].children # <<>>
                      THEN FindNodes(nodes_, nodes_[n].children, kwargs_)
                      ELSE <<>>
         IN  here \o below \o FindNodes(nodes_, Tail(ids), kwargs_)

\* '#' * n
Hashes(n) == [k \in 1..n |-> "#"]

\* A faulty variant of NodeToMarkdown: the heading level is not capped at 6.
RECURSIVE NodeToMarkdownUncapped(_, _, _), ChildrenUncapped(_, _, _)
NodeToMarkdownUncapped(nodes_, n, depth) ==
    LET node == nodes_[n]
        heading_level == IF node.level > 0 THEN node.level + depth ELSE 1 + depth
        md == Hashes(heading_level) \o <<" ">> \o node.title \o <<"\n", "\n">>
        body == IF Strip(node.content) # <<>>
                THEN Strip(node.content) \o <<"\n", "\n">>
                ELSE <<>>
    IN  md \o body \o ChildrenUncapped(nodes_, node.children, depth + 1)
ChildrenUncapped(nodes_, ids, depth) ==
    IF ids = <<>> THEN <<>>
    ELSE NodeToMarkdownUncapped(nodes_, Head(ids), depth)
             \o ChildrenUncapped(nodes_, Tail(ids), depth)

\* A faulty variant of NodeToMarkdown: the heading level is capped at 7.
RECURSIVE NodeToMarkdownCapSeven(_, _, _), ChildrenCapSeven(_, _, _)
NodeToMarkdownCapSeven(nodes_, n, depth) ==
    LET node == nodes_[n]
        heading_level == IF node.level > 0 THEN Min(7, node.level + depth) ELSE 1 + depth
        md == Hashes(heading_level) \o <<" ">> \o node.title \o <<"\n", "\n">>
        body == IF Strip(node.content) # <<>>
                THEN Strip(node.content) \o <<"\n", "\n">>
                ELSE <<>>
    IN  md \o body \o ChildrenCapSeven(nodes_, node.children, depth + 1)
ChildrenCapSeven(nodes_, ids, depth) ==
    IF ids = <<>> THEN <<>>
    ELSE NodeToMarkdownCapSeven(nodes_, Head(ids), depth)
             \o ChildrenCapSeven(nodes_, Tail(ids), depth)

\* MarkdownParser._node_to_markdown(node, depth)
RECURSIVE NodeToMarkdown(_, _, _), ChildrenToMarkdown(_, _, _)
NodeToMarkdown(nodes_, n, depth) ==
    LET node == nodes_[n]
        heading_level == IF node.level > 0 THEN Min(6, node.level + depth) ELSE 1 + depth
        md == Hashes(heading_level) \o <<" ">> \o node.title \o <<"\n", "\n">>
        body == IF Strip(node.content) # <<>>
                THEN Strip(node.content) \o <<"\n", "\n">>
                ELSE <<>>
    IN  md \o body \o ChildrenToMarkdown(nodes_, node.children, depth + 1)
\* the loop "for child in node['children']" of _node_to_markdown
ChildrenToMarkdown(nodes_, ids, depth) ==
    IF ids = <<>> THEN <<>>
    ELSE NodeToMarkdown(nodes_, Head(ids), depth)
             \o ChildrenToMarkdown(nodes_, Tail(ids), depth)

\* the loop "for node in found_nodes" of get_section_content
RECURSIVE FoundToMarkdown(_, _)
FoundToMarkdown(nodes_, found) ==
    IF found = <<>> THEN <<>>
    ELSE NodeToMarkdown(nodes_, Head(found), 0) \o FoundToMarkdown(nodes_, Tail(found))

\* A faulty variant of GetSectionContent: a matching node below a matching
\* node is not emitted a second time.
GetSectionContentDedup(nodes_, parse_tree, kwargs_) ==
    IF parse_tree = <<>> THEN [found_nodes |-> <<>>, result |-> <<>>]
    ELSE [found_nodes |-> FindNodes(nodes_, parse_tree, kwargs_),
          result |-> FoundToMarkdown(nodes_, FindNodesShallow(nodes_, parse_tree, kwargs_))]

\* MarkdownParser.get_section_content(**kwargs): what it returns, and its local
\* found_nodes (empty when the call returns before setting it)
GetSectionContent(nodes_, parse_tree, kwargs_) ==
    IF parse_tree = <<>> THEN [found_nodes |-> <<>>, result |-> <<>>]
    ELSE LET found == FindNodes(nodes_, parse_tree, kwargs_)
         IN  IF found = <<>> THEN [found_nodes |-> found, result |-> <<>>]
             ELSE [found_nodes |-> found, result |-> FoundToMarkdown(nodes_, found)]

----------------------------------------------------------------------------
(* Detection.  A Python float is modelled by the exact fraction <<n, d>>,    *)
(* d > 0, in lowest terms: the scores are sums and quotients of small      *)
(* numbers, and rounding is left out.                                      *)

RECURSIVE Gcd(_, _)
Gcd(a, b) == IF b = 0 THEN a ELSE Gcd(b, a % b)
Frac(n, d) ==
    LET g == Gcd(IF n < 0 THEN -n ELSE n, d)
    IN  <<n \div g, d \div g>>
FZero == Frac(0, 1)
FOne == Frac(1, 1)
FAdd(x, y) == Frac(x[1] * y[2] + y[1] * x[2], x[2] * y[2])
FSub(x, y) == Frac(x[1] * y[2] - y[1] * x[2], x[2] * y[2])
FMul(x, y) == Frac(x[1] * y[1], x[2] * y[2])
\* x / y, for y > 0
FDiv(x, y) == Frac(x[1] * y[2], x[2] * y[1])
FLess(x, y) == x[1] * y[2] < y[1] * x[2]
FMin(x, y) == IF FLess(y, x) THEN y ELSE x
FMax(x, y) == IF FLess(x, y) THEN y ELSE x

\* [\u4e00\u4e8c\u4e09\u56db\u4e94\u516d\u4e03\u516b\u4e5d\u5341]
ChineseNumerals ==
    {"u4e00", "u4e8c", "u4e09", "u56db", "u4e94", "u516d", "u4e03", "u516b", "u4e5d", "u5341"}

\* ThesisParsingStrategy.get_detection_features
ThesisFeatures ==
    [required_patterns |-> <<
        <<ThesisMarker, 10>> >>,
     optional_patterns |-> <<
        \* \u7b2c[\u4e00\u4e8c\u4e09\u56db\u4e94\u516d\u4e03\u516b\u4e5d\u5341]+\u7ae0
        << <<One({"u7b2c"}), Plus(ChineseNumerals), One({"u7ae0"})>>, 5>>,
        \* \u7b2c\d+\u7ae0
        << <<One({"u7b2c"}), Plus(Digit), One({"u7ae0"})>>, 5>>,
        \* \u6458\s*\u8981
        << <<One({"u6458"}), Star(Whitespace), One({"u8981"})>>, 3>>,
        \* \u53c2\s*\u8003\s*\u6587\s*\u732e
        << <<One({"u53c2"}), Star(Whitespace), One({"u8003"}), Star(Whitespace),
             One({"u6587"}), Star(Whitespace), One({"u732e"})>>, 3>>,
        \* #\s*\d+\.\d+
        << <<One({"#"}), Star(Whitespace), Plus(Digit), One({"."}), Plus(Digit)>>, 2>>,
        \* \u76ee\s*\u5f55
        << <<One({"u76ee"}), Star(Whitespace), One({"u5f55"})>>, 2>>,
        <<Lit(<<"u4f5c", "u8005", "u4ecb", "u7ecd">>), 1>>,
        <<Lit(<<"u53d6", "u5f97", "u7684", "u7814", "u7a76", "u6210", "u679c">>), 1>> >>,
     structural_hints |-> <<
        <<"_check_chinese_chapter_structure", 3>>,
        <<"_check_hierarchical_numbering", 2>> >>,
     exclusion_patterns |-> <<
        \* IEEE.*Member
        Lit(<<"I", "E", "E", "E">>) \o <<DotStar>> \o Lit(<<"M", "e", "m", "b", "e", "r">>),
        Lit(<<"I", "n", "d", "e", "x", " ", "T", "e", "r", "m", "s", "u2014">>),
        Lit(<<"A", "s", "s", "o", "c", "i", "a", "t", "i", "o", "n", " ", "f", "o", "r", " ", "t", "h", "e", " ", "A", "d", "v", "a", "n", "c", "e", "m", "e", "n", "t", " ", "o", "f", " ", "A", "r", "t", "i", "f", "i", "c", "i", "a", "l", " ", "I", "n", "t", "e", "l", "l", "i", "g", "e", "n", "c", "e">>) >>]

\* ^# text$
HeadingLine(text) == <<Bol>> \o Lit(<<"#", " ">>) \o text \o <<Eol>>
\* ^# (a|b)$
HeadingLineOf(texts) == <<Bol>> \o Lit(<<"#", " ">>) \o <<Alt(texts), Eol>>

\* ConferencePaperStrategy.get_detection_features
ConferenceFeatures ==
    [required_patterns |-> <<
        <<HeadingLineOf(<<Lit(<<"A", "b", "s", "t", "r", "a", "c", "t">>), Lit(<<"I", "n", "t", "r", "o", "d", "u", "c", "t", "i", "o", "n">>)>>), 8>> >>,
     optional_patterns |-> <<
        << <<Alt(<<Lit(<<"A", "A", "A", "I">>), Lit(<<"N", "e", "u", "r", "I", "P", "S">>), Lit(<<"I", "C", "M", "L">>), Lit(<<"I", "C", "L", "R">>),
                   Lit(<<"A", "C", "L">>), Lit(<<"E", "M", "N", "L", "P">>), Lit(<<"C", "V", "P", "R">>), Lit(<<"I", "C", "C", "V">>),
                   Lit(<<"E", "C", "C", "V">>)>>)>>, 4>>,
        <<Lit(<<"A", "s", "s", "o", "c", "i", "a", "t", "i", "o", "n", " ", "f", "o", "r", " ", "t", "h", "e", " ", "A", "d", "v", "a", "n", "c", "e", "m", "e", "n", "t", " ", "o", "f", " ", "A", "r", "t", "i", "f", "i", "c", "i", "a", "l", " ", "I", "n", "t", "e", "l", "l", "i", "g", "e", "n", "c", "e">>), 4>>,
        <<Lit(<<"C", "o", "n", "f", "e", "r", "e", "n", "c", "e", " ", "o", "n">>), 3>>,
        <<HeadingLine(Lit(<<"A", "b", "s", "t", "r", "a", "c", "t">>)), 4>>,
        <<HeadingLine(Lit(<<"I", "n", "t", "r", "o", "d", "u", "c", "t", "i", "o", "n">>)), 4>>,
        <<HeadingLine(Lit(<<"R", "e", "l", "a", "t", "e", "d", " ", "W", "o", "r", "k">>)), 3>>,
        <<HeadingLineOf(<<Lit(<<"M", "e", "t", "h", "o", "d">>), Lit(<<"M", "e", "t", "h", "o", "d", "o", "l", "o", "g", "y">>)>>), 3>>,
        <<HeadingLineOf(<<Lit(<<"R", "e", "s", "u", "l", "t", "s">>), Lit(<<"E", "x", "p", "e", "r", "i", "m", "e", "n", "t", "s">>)>>), 3>>,
        <<HeadingLine(Lit(<<"D", "i", "s", "c", "u", "s", "s", "i", "o", "n">>)), 2>>,
        <<HeadingLineOf(<<Lit(<<"C", "o", "n", "c", "l", "u", "s", "i", "o", "n">>), Lit(<<"C", "o", "n", "c", "l", "u", "s", "i", "o", "n", "s">>)>>), 4>>,
        <<HeadingLine(Lit(<<"R", "e", "f", "e", "r", "e", "n", "c", "e", "s">>)), 3>>,
        \* Copyright \u00a9.*20\d{2}
        <<Lit(<<"C", "o", "p", "y", "r", "i", "g", "h", "t", " ", "u00a9">>) \o <<DotStar>> \o Lit(<<"2", "0">>) \o <<Rep(Digit, 2, 2)>>, 2>>,
        <<Lit(<<"A", "l", "l", " ", "r", "i", "g", "h", "t", "s", " ", "r", "e", "s", "e", "r", "v", "e", "d">>), 1>>,
        <<Lit(<<"E", "x", "t", "e", "n", "d", "e", "d", " ", "v", "e", "r", "s", "i", "o", "n">>), 1>>,
        <<Lit(<<"a", "r", "X", "i", "v">>), 1>> >>,
     structural_hints |-> <<
        <<"_check_standard_section_flow", 5>>,
        <<"_check_title_case_sections", 3>>,
        <<"_check_no_roman_numerals", 2>> >>,
     exclusion_patterns |-> <<
        Lit(<<"u535a", "u58eb", "u5b66", "u4f4d", "u8bba", "u6587">>),
        \* \u7b2c.*\u7ae0
        <<One({"u7b2c"}), DotStar, One({"u7ae0"})>>,
        \* IEEE.*?(Member|Fellow)
        Lit(<<"I", "E", "E", "E">>) \o <<DotStarLazy, Alt(<<Lit(<<"M", "e", "m", "b", "e", "r">>), Lit(<<"F", "e", "l", "l", "o", "w">>)>>)>>,
        \* Index Terms[\u2014\-]
        Lit(<<"I", "n", "d", "e", "x", " ", "T", "e", "r", "m", "s">>) \o <<One({"u2014", "-"})>>,
        \* ^# [IVX]+\.\s+[A-Z]
        <<Bol>> \o Lit(<<"#", " ">>) \o <<Plus(Roman), One({"."}), Plus(Whitespace), One(Upper)>> >>]

\* #\s+
HashSpace == <<One({"#"}), Plus(Whitespace)>>

\* JournalPaperStrategy.get_detection_features
JournalFeatures ==
    [required_patterns |-> <<
        \* #\s+[IVX]+\.\s+[A-Z]{3,}
        <<HashSpace \o <<Plus(Roman), One({"."}), Plus(Whitespace), Rep(Upper, 3, -1)>>, 10>> >>,
     optional_patterns |-> <<
        <<Lit(<<"I", "n", "d", "e", "x", " ", "T", "e", "r", "m", "s">>) \o <<One({"u2014", "-"})>>, 5>>,
        \* (IEEE|ACM).*?(Member|Fellow|Transactions)
        << <<Alt(<<Lit(<<"I", "E", "E", "E">>), Lit(<<"A", "C", "M">>)>>), DotStarLazy,
             Alt(<<Lit(<<"M", "e", "m", "b", "e", "r">>), Lit(<<"F", "e", "l", "l", "o", "w">>), Lit(<<"T", "r", "a", "n", "s", "a", "c", "t", "i", "o", "n", "s">>)>>)>>, 4>>,
        \* #\s+I\.\s+INTRODUCTION
        <<HashSpace \o Lit(<<"I", ".">>) \o <<Plus(Whitespace)>> \o Lit(<<"I", "N", "T", "R", "O", "D", "U", "C", "T", "I", "O", "N">>), 4>>,
        \* #\s+II\.\s+(RELATED WORK|BACKGROUND)
        <<HashSpace \o Lit(<<"I", "I", ".">>)
              \o <<Plus(Whitespace), Alt(<<Lit(<<"R", "E", "L", "A", "T", "E", "D", " ", "W", "O", "R", "K">>), Lit(<<"B", "A", "C", "K", "G", "R", "O", "U", "N", "D">>)>>)>>, 3>>,
        \* #\s+[IVX]+\.\s+CONCLUSION
        <<HashSpace \o <<Plus(Roman), One({"."}), Plus(Whitespace)>> \o Lit(<<"C", "O", "N", "C", "L", "U", "S", "I", "O", "N">>), 3>>,
        \* ##\s+[A-Z]\.\s+[A-Z]
        <<Lit(<<"#", "#">>) \o <<Plus(Whitespace), One(Upper), One({"."}), Plus(Whitespace),
                           One(Upper)>>, 3>>,
        <<HeadingLine(Lit(<<"A", "b", "s", "t", "r", "a", "c", "t">>)), 2>>,
        \* Abstract[\u2014\-]
        <<Lit(<<"A", "b", "s", "t", "r", "a", "c", "t">>) \o <<One({"u2014", "-"})>>, 2>>,
        <<HeadingLineOf(<<Lit(<<"R", "E", "F", "E", "R", "E", "N", "C", "E", "S">>), Lit(<<"R", "e", "f", "e", "r", "e", "n", "c", "e", "s">>)>>), 2>>,
        <<Lit(<<"D", "i", "g", "i", "t", "a", "l", " ", "O", "b", "j", "e", "c", "t", " ", "I", "d", "e", "n", "t", "i", "f", "i", "e", "r">>), 1>>,
        <<Lit(<<"d", "o", "i", ".", "o", "r", "g">>), 1>> >>,
     structural_hints |-> <<
        <<"_check_roman_numeral_structure", 4>>,
        <<"_check_letter_subsections", 2>>,
        <<"_check_uppercase_sections", 2>> >>,
     exclusion_patterns |-> <<
        Lit(<<"u535a", "u58eb", "u5b66", "u4f4d", "u8bba", "u6587">>),
        <<One({"u7b2c"}), DotStar, One({"u7ae0"})>>,
        Lit(<<"A", "s", "s", "o", "c", "i", "a", "t", "i", "o", "n", " ", "f", "o", "r", " ", "t", "h", "e", " ", "A", "d", "v", "a", "n", "c", "e", "m", "e", "n", "t", " ", "o", "f", " ", "A", "r", "t", "i", "f", "i", "c", "i", "a", "l", " ", "I", "n", "t", "e", "l", "l", "i", "g", "e", "n", "c", "e">>) >>]

\* The strategy classes: the three of the package, and "custom", a subclass
\* whose get_detection_features returns {} (it declares no feature).
Classes == {"thesis", "conference", "journal", "custom"}

\* strategy_class().get_detection_features(), a dict
DetectionFeatures(class) ==
    CASE class = "thesis" -> ThesisFeatures
      [] class = "conference" -> ConferenceFeatures
      [] class = "journal" -> JournalFeatures
      [] class = "custom" -> <<>>

\* ThesisParsingStrategy._check_chinese_chapter_structure
CheckChineseChapterStructure(content_) ==
    LET \* #\s*\u7b2c[\u4e00\u4e8c\u4e09\u56db\u4e94\u516d\u4e03\u516b\u4e5d\u5341\d]+\u7ae0
        chapter_pattern == <<One({"#"}), Star(Whitespace), One({"u7b2c"}),
                             Plus(ChineseNumerals \cup Digit), One({"u7ae0"})>>
        score(chapters) ==
            IF chapters >= 3 THEN FOne
            ELSE IF chapters >= 1 THEN Frac(5, 10)
            ELSE FZero
    IN  score(FindAllCount(chapter_pattern, content_, NoFlags))

\* ThesisParsingStrategy._check_hierarchical_numbering
CheckHierarchicalNumbering(content_) ==
    LET \* ##\s*\d+\.\d+\s
        section_pattern == Lit(<<"#", "#">>) \o <<Star(Whitespace), Plus(Digit), One({"."}),
                                            Plus(Digit), One(Whitespace)>>
        \* ###\s*\d+\.\d+\.\d+\s
        clause_pattern == Lit(<<"#", "#", "#">>) \o <<Star(Whitespace), Plus(Digit), One({"."}),
                                            Plus(Digit), One({"."}), Plus(Digit),
                                            One(Whitespace)>>
        score(total_numbered) ==
            IF total_numbered >= 10 THEN FOne
            ELSE IF total_numbered >= 5 THEN Frac(7, 10)
            ELSE IF total_numbered >= 2 THEN Frac(4, 10)
            ELSE FZero
    IN  score(FindAllCount(section_pattern, content_, NoFlags)
                  + FindAllCount(clause_pattern, content_, NoFlags))

\* expected_sections of _check_standard_section_flow; the third to the seventh
\* have no $
ExpectedSections == <<
    HeadingLine(Lit(<<"A", "b", "s", "t", "r", "a", "c", "t">>)),
    HeadingLine(Lit(<<"I", "n", "t", "r", "o", "d", "u", "c", "t", "i", "o", "n">>)),
    <<Bol>> \o Lit(<<"#", " ">>) \o <<Alt(<<Lit(<<"R", "e", "l", "a", "t", "e", "d", " ", "W", "o", "r", "k">>), Lit(<<"B", "a", "c", "k", "g", "r", "o", "u", "n", "d">>)>>)>>,
    <<Bol>> \o Lit(<<"#", " ">>)
        \o <<Alt(<<Lit(<<"M", "e", "t", "h", "o", "d">>), Lit(<<"M", "e", "t", "h", "o", "d", "o", "l", "o", "g", "y">>), Lit(<<"A", "p", "p", "r", "o", "a", "c", "h">>)>>)>>,
    <<Bol>> \o Lit(<<"#", " ">>)
        \o <<Alt(<<Lit(<<"R", "e", "s", "u", "l", "t", "s">>), Lit(<<"E", "x", "p", "e", "r", "i", "m", "e", "n", "t", "s">>), Lit(<<"E", "v", "a", "l", "u", "a", "t", "i", "o", "n">>)>>)>>,
    <<Bol>> \o Lit(<<"#", " ">>) \o <<Alt(<<Lit(<<"D", "i", "s", "c", "u", "s", "s", "i", "o", "n">>), Lit(<<"A", "n", "a", "l", "y", "s", "i", "s">>)>>)>>,
    <<Bol>> \o Lit(<<"#", " ">>) \o <<Alt(<<Lit(<<"C", "o", "n", "c", "l", "u", "s", "i", "o", "n">>), Lit(<<"C", "o", "n", "c", "l", "u", "s", "i", "o", "n", "s">>)>>)>>,
    HeadingLine(Lit(<<"R", "e", "f", "e", "r", "e", "n", "c", "e", "s">>)) >>

\* the list l without the entries that are -1
RECURSIVE Found(_)
Found(l) ==
    IF l = <<>> THEN <<>>
    ELSE IF Head(l) < 0 THEN Found(Tail(l))
    ELSE <<Head(l)>> \o Found(Tail(l))

\* _check_standard_section_flow without its test "len(section_positions) >= 3"
CheckStandardSectionFlowAnyNumber(content_) ==
    LET starts == [k \in DOMAIN ExpectedSections |->
                      SearchStart(ExpectedSections[k], content_, IgnoreCaseMultiline)]
        flow(section_positions) ==
            LET score == Frac(Len(section_positions), Len(ExpectedSections))
                is_ordered == \A k \in 1..(Len(section_positions) - 1) :
                                  section_positions[k] < section_positions[k + 1]
            IN  IF is_ordered
                THEN FMin(FOne, FAdd(score, Frac(2, 10)))
                ELSE score
    IN  flow(Found(starts))

\* ConferencePaperStrategy._check_standard_section_flow
CheckStandardSectionFlow(content_) ==
    LET starts == [k \in DOMAIN ExpectedSections |->
                      SearchStart(ExpectedSections[k], content_, IgnoreCaseMultiline)]
        flow(section_positions) ==
            LET score == Frac(Len(section_positions), Len(ExpectedSections))
                is_ordered == \A k \in 1..(Len(section_positions) - 1) :
                                  section_positions[k] < section_positions[k + 1]
            IN  IF Len(section_positions) >= 3 /\ is_ordered
                THEN FMin(FOne, FAdd(score, Frac(2, 10)))
                ELSE score
    IN  flow(Found(starts))

\* ConferencePaperStrategy._check_title_case_sections
CheckTitleCaseSections(content_) ==
    LET title_case(heading) ==
            LET has_uppercase == \E k \in DOMAIN heading : IsUpper(heading[k])
                has_lowercase == \E k \in DOMAIN heading : IsLower(heading[k])
                not_all_caps == ~StrIsUpper(heading)
            IN  has_uppercase /\ has_lowercase /\ not_all_caps
        score(headings) ==
            IF Len(headings) < 2 THEN FZero
            ELSE Frac(Cardinality({k \in 2..Len(headings) : title_case(headings[k])}),
                      Len(headings) - 1)
        \* ^# (.+)$
    IN  score(FindAllGroup(<<Bol>> \o Lit(<<"#", " ">>), <<DotPlus, Eol>>, content_, Multiline))

\* ConferencePaperStrategy._check_no_roman_numerals
CheckNoRomanNumerals(content_) ==
    LET \* ^# [IVX]+\.\s+
        pattern == <<Bol>> \o Lit(<<"#", " ">>) \o <<Plus(Roman), One({"."}), Plus(Whitespace)>>
        score(matches) ==
            IF matches = 0 THEN FOne
            ELSE IF matches = 1 THEN Frac(3, 10)
            ELSE FZero
    IN  score(FindAllCount(pattern, content_, Multiline))

\* JournalPaperStrategy._check_roman_numeral_structure
CheckRomanNumeralStructure(content_) ==
    LET \* ^#\s+[IVX]+\.\s+[A-Z]
        pattern == <<Bol>> \o HashSpace
                       \o <<Plus(Roman), One({"."}), Plus(Whitespace), One(Upper)>>
        score(matches) ==
            IF matches >= 5 THEN FOne
            ELSE IF matches >= 3 THEN Frac(8, 10)
            ELSE IF matches >= 1 THEN Frac(5, 10)
            ELSE FZero
    IN  score(FindAllCount(pattern, content_, Multiline))

\* JournalPaperStrategy._check_letter_subsections
CheckLetterSubsections(content_) ==
    LET \* ^##\s+[A-Z]\.\s+[A-Z]
        pattern == <<Bol>> \o Lit(<<"#", "#">>)
                       \o <<Plus(Whitespace), One(Upper), One({"."}), Plus(Whitespace),
                            One(Upper)>>
        score(matches) ==
            IF matches >= 3 THEN FOne
            ELSE IF matches >= 1 THEN Frac(6, 10)
            ELSE FZero
    IN  score(FindAllCount(pattern, content_, Multiline))

\* JournalPaperStrategy._check_uppercase_sections
CheckUppercaseSections(content_) ==
    LET \* re.sub(r"^[IVX]+\.\s+", "", heading)
        numeral == <<Bol, Plus(Roman), One({"."}), Plus(Whitespace)>>
        after(heading, ends) ==
            IF ends = <<>> THEN heading
            ELSE SubSeq(heading, Head(ends) + 1, Len(heading))
        cleaned(heading) == after(heading, Ends(numeral, 1, heading, 0, NoFlags))
        upper_of(c) ==
            LET letters == {k \in DOMAIN c : IsAlpha(c[k])}
                uppers == {k \in letters : IsUpper(c[k])}
            IN  /\ letters # {}
                \* uppercase_ratio > 0.8
                /\ 10 * Cardinality(uppers) > 8 * Cardinality(letters)
        mostly_upper(heading) == upper_of(cleaned(heading))
        score(headings) ==
            IF Len(headings) > 1
            THEN Frac(Cardinality({k \in 2..Len(headings) : mostly_upper(headings[k])}),
                      Len(headings) - 1)
            ELSE FZero
        \* ^#\s+(.+)$
    IN  score(FindAllGroup(<<Bol>> \o HashSpace, <<DotPlus, Eol>>, content_, Multiline))

\* hint_function(content, lines); no hint function reads lines
HintScore(hint_function, content_) ==
    CASE hint_function = "_check_chinese_chapter_structure" ->
             CheckChineseChapterStructure(content_)
      [] hint_function = "_check_hierarchical_numbering" ->
             CheckHierarchicalNumbering(content_)
      [] hint_function = "_check_standard_section_flow" -> CheckStandardSectionFlow(content_)
      [] hint_function = "_check_title_case_sections" -> CheckTitleCaseSections(content_)
      [] hint_function = "_check_no_roman_numerals" -> CheckNoRomanNumerals(content_)
      [] hint_function = "_check_roman_numeral_structure" ->
             CheckRomanNumeralStructure(content_)
      [] hint_function = "_check_letter_subsections" -> CheckLetterSubsections(content_)
      [] hint_function = "_check_uppercase_sections" -> CheckUppercaseSections(content_)

\* features.get(key, [])
Get(features, key) == IF key \in DOMAIN features THEN features[key] ELSE <<>>

\* the loop over exclusion_patterns of detect: TRUE when it returns 0.0
Excluded(exclusion_patterns, content_) ==
    \E k \in DOMAIN exclusion_patterns :
        ReSearch(exclusion_patterns[k], content_, IgnoreCaseMultiline)

\* the sum of a list of fractions
RECURSIVE FSum(_)
FSum(l) == IF l = <<>> THEN FZero ELSE FAdd(Head(l), FSum(Tail(l)))

\* what the loops of detect add to max_score, pair by pair
Weights(pairs) == [k \in DOMAIN pairs |-> Frac(pairs[k][2], 1)]

\* what the loop over required_patterns of detect adds to score, pattern by
\* pattern
RequiredScores(required_patterns, content_) ==
    [k \in DOMAIN required_patterns |->
        LET pattern == required_patterns[k][1]
            weight == Frac(required_patterns[k][2], 1)
        IN  IF ReSearch(pattern, content_, IgnoreCaseMultiline) THEN weight
            ELSE FSub(FZero, FMul(weight, Frac(5, 10)))]

\* what the loop over optional_patterns of detect adds to score
OptionalScores(optional_patterns, content_) ==
    [k \in DOMAIN optional_patterns |->
        LET pattern == optional_patterns[k][1]
            weight == Frac(optional_patterns[k][2], 1)
            occurrence_score(matches) ==
                IF matches > 0 THEN FMul(FMin(Frac(matches, 3), FOne), weight) ELSE FZero
        IN  occurrence_score(FindAllCount(pattern, content_, IgnoreCaseMultiline))]

\* what the loop over structural_hints of detect adds to score
HintScores(structural_hints, content_) ==
    [k \in DOMAIN structural_hints |->
        FMul(HintScore(structural_hints[k][1], content_), Frac(structural_hints[k][2], 1))]

\* A faulty variant of Normalize: the quotient is not clamped.
NormalizeUnclamped(score, max_score) ==
    IF FLess(FZero, max_score) THEN FDiv(score, max_score) ELSE FZero

\* "Normalize score to 0-1 range" of detect
Normalize(score, max_score) ==
    IF FLess(FZero, max_score) THEN FMax(FZero, FMin(FOne, FDiv(score, max_score)))
    ELSE FZero

\* detect from "Check exclusion patterns first" on, given what
\* get_detection_features returned: what detect returns (result) and its
\* locals score and max_score when it returns
DetectWith(features, content_) ==
    LET scored(score, max_score) ==
            [score |-> score, max_score |-> max_score,
             result |-> Normalize(score, max_score)]
        loops(required_patterns, optional_patterns, structural_hints) ==
            scored(FSum(RequiredScores(required_patterns, content_)
                            \o OptionalScores(optional_patterns, content_)
                            \o HintScores(structural_hints, content_)),
                   FSum(Weights(required_patterns) \o Weights(optional_patterns)
                            \o Weights(structural_hints)))
    IN  IF Excluded(Get(features, "exclusion_patterns"), content_)
        THEN [score |-> FZero, max_score |-> FZero, result |-> FZero]
        ELSE loops(Get(features, "required_patterns"), Get(features, "optional_patterns"),
                   Get(features, "structural_hints"))

\* ParsingStrategy.detect(content, lines) on an instance of class
Detect(class, content_) == DetectWith(DetectionFeatures(class), content_)

----------------------------------------------------------------------------
(* The documents detection is run on: content is the lines of a document   *)
(* joined by newlines.                                                     *)

MaxDocLines == 1
MaxFactoryLines == 1

DetectLines == <<
    <<"#", " ", "u535a", "u58eb", "u5b66", "u4f4d", "u8bba", "u6587">>, <<"#", " ", "u7b2c", "u4e00", "u7ae0">>, <<"#", "#", " ", "1", ".", "1">>, <<"#", " ", "A", "b", "s", "t", "r", "a", "c", "t">>, <<"#", " ", "I", "n", "t", "r", "o", "d", "u", "c", "t", "i", "o", "n">>,
    <<"#", " ", "R", "e", "f", "e", "r", "e", "n", "c", "e", "s">>, <<"#", " ", "I", ".", " ", "I", "N", "T", "R", "O", "D", "U", "C", "T", "I", "O", "N">>, <<"#", "#", " ", "A", ".", " ", "S">>, <<"I", "n", "d", "e", "x", " ", "T", "e", "r", "m", "s", "u2014", "x">> >>

\* "\n".join(lines), for the lines of the catalogue numbered by ls
DocOf(ls) == Join(<<"\n">>, [k \in DOMAIN ls |-> DetectLines[ls[k]]])

\* the documents of at most n lines
DocsUpTo(n) == {DocOf(ls) : ls \in UNION {[1..k -> DOMAIN DetectLines] : k \in 0..n}}

\* longer documents: a thesis, a conference paper and a journal paper that
\* their own class scores above the default threshold, documents that hold
\* what a class requires and what it excludes, and documents with repeated
\* headings
SampleDocs == {
    DocOf(<<1, 2>>), DocOf(<<4, 5, 6>>), DocOf(<<7, 8>>),
    DocOf(<<4, 9>>), DocOf(<<1, 9>>), DocOf(<<7, 2>>), DocOf(<<4, 7>>),
    DocOf(<<2, 2>>), DocOf(<<2, 3>>), DocOf(<<3, 3>>), DocOf(<<5, 6>>),
    DocOf(<<6, 8>>), DocOf(<<8, 8>>), DocOf(<<7, 7, 7>>) }

\* the documents handed to detect, and those handed to auto_detect
Docs == DocsUpTo(MaxDocLines) \cup SampleDocs
FactoryDocs == DocsUpTo(MaxFactoryLines) \cup SampleDocs

\* the documents in groups: those that start with line k of the catalogue,
\* and last the empty one
DocGroups ==
    [k \in DOMAIN DetectLines |-> {d \in Docs : StartsWith(d, DetectLines[k])}]
        \o <<{d \in Docs : d = <<>>}>>

\* detect of an instance of class, worked out once for the documents of a
\* group and for all groups
RECURSIVE DetectionsOf(_, _), DetectionsOfGroups(_, _), DetectionsOfClasses(_)
DetectionsOf(class, docs) ==
    IF docs = {} THEN <<>>
    ELSE LET d == CHOOSE x \in docs : TRUE
         IN  (d :> Detect(class, d)) @@ DetectionsOf(class, docs \ {d})
DetectionsOfGroups(class, g) ==
    IF g > Len(DocGroups) THEN <<>>
    ELSE DetectionsOf(class, DocGroups[g]) @@ DetectionsOfGroups(class, g + 1)
DetectionsOfClasses(classes) ==
    IF classes = {} THEN <<>>
    ELSE LET class == CHOOSE x \in classes : TRUE
         IN  (class :> DetectionsOfGroups(class, 1)) @@ DetectionsOfClasses(classes \ {class})
Detections == DetectionsOfClasses(Classes)

\* strategy_class().detect(content, lines)
Detected(class, content_) == Detections[class][content_]

----------------------------------------------------------------------------
(* The factory.  A class attribute that holds a float holds a fraction.    *)

\* CONFIDENCE_THRESHOLD = 0.3
DefaultThreshold == Frac(3, 10)

\* the thresholds set_confidence_threshold is called with
Thresholds == {Frac(-1, 10), Frac(0, 1), Frac(3, 10), Frac(1, 1), Frac(3, 2)}

\* an object that is no subclass of ParsingStrategy
NotAStrategy == "NotAStrategy"

\* register_strategy: the registry afterwards, and the exception raised
\* ParsingStrategy itself, the abstract base class: it cannot be instantiated
Abstract == "ParsingStrategy"

\* the classes c with issubclass(c, ParsingStrategy)
Subclasses == Classes \cup {Abstract}

Register(strategies_, strategy_class) ==
    IF strategy_class \notin Subclasses
    THEN [strategies |-> strategies_, raised |-> "TypeError"]
    ELSE IF \A k \in DOMAIN strategies_ : strategies_[k] # strategy_class
    THEN [strategies |-> Append(strategies_, strategy_class), raised |-> None]
    ELSE [strategies |-> strategies_, raised |-> None]

\* unregister_strategy: list.remove takes out the first occurrence
Unregister(strategies_, strategy_class) ==
    IF \E k \in DOMAIN strategies_ : strategies_[k] = strategy_class
    THEN LET at == CHOOSE k \in DOMAIN strategies_ :
                       /\ strategies_[k] = strategy_class
                       /\ \A j \in 1..(k - 1) : strategies_[j] # strategy_class
         IN  SubSeq(strategies_, 1, at - 1) \o SubSeq(strategies_, at + 1, Len(strategies_))
    ELSE strategies_

\* set_confidence_threshold: the class attribute afterwards, and the exception
\* set_confidence_threshold with "0.0 < threshold < 1.0" for its test
SetConfidenceThresholdOpen(current, t) ==
    IF ~(FLess(FZero, t) /\ FLess(t, FOne))
    THEN [confidence_threshold |-> current, raised |-> "ValueError"]
    ELSE [confidence_threshold |-> t, raised |-> None]

SetConfidenceThreshold(current, t) ==
    IF ~(~FLess(t, FZero) /\ ~FLess(FOne, t))
    THEN [confidence_threshold |-> current, raised |-> "ValueError"]
    ELSE [confidence_threshold |-> t, raised |-> None]

\* A faulty variant of MaxByScore: a later key with an equal score replaces
\* the best so far.
RECURSIVE MaxByScoreLast(_, _, _, _)
MaxByScoreLast(keys, scores_, k, best_) ==
    IF k > Len(keys) THEN best_
    ELSE MaxByScoreLast(keys, scores_, k + 1,
             IF ~FLess(scores_[keys[k]], scores_[best_]) THEN keys[k] ELSE best_)

\* max(scores, key=scores.get) from the k-th key on, best_ being the greatest
\* so far: max keeps the first of equal keys
RECURSIVE MaxByScore(_, _, _, _)
MaxByScore(keys, scores_, k, best_) ==
    IF k > Len(keys) THEN best_
    ELSE MaxByScore(keys, scores_, k + 1,
             IF FLess(scores_[best_], scores_[keys[k]]) THEN keys[k] ELSE best_)

\* A faulty variant of AutoDetectScored: when the best score is below the
\* threshold, the first registered class is returned (what the docstring says).
AutoDetectScoredDefaulting(strategies_, confidence_threshold_, content_) ==
    LET scored(scores_, best_strategy_class) ==
            IF FLess(scores_[best_strategy_class], confidence_threshold_)
            THEN [scores |-> scores_, best |-> strategies_[1], below |-> TRUE,
                  raised |-> None]
            ELSE [scores |-> scores_, best |-> best_strategy_class, below |-> FALSE,
                  raised |-> None]
        of(scores_) == scored(scores_, MaxByScore(strategies_, scores_, 2, strategies_[1]))
    IN  of([c \in {strategies_[k] : k \in DOMAIN strategies_} |->
               Detected(c, content_).result])

\* auto_detect; the keys of scores are in the order of the registry
\* auto_detect from line 75 on: the registry is not empty
AutoDetectScored(strategies_, confidence_threshold_, content_) ==
    LET chosen(scores_, best_strategy_class, best_score) ==
            [scores |-> scores_, best |-> best_strategy_class,
             below |-> FLess(best_score, confidence_threshold_), raised |-> None]
        best_of(scores_, best_strategy_class) ==
            chosen(scores_, best_strategy_class, scores_[best_strategy_class])
        scored(scores_) ==
            best_of(scores_, MaxByScore(strategies_, scores_, 2, strategies_[1]))
    IN  scored([c \in {strategies_[k] : k \in DOMAIN strategies_} |->
                   Detected(c, content_).result])

\* auto_detect; "strategy_class()" at line 77 raises TypeError for the abstract
\* class
AutoDetect(strategies_, confidence_threshold_, content_) ==
    IF strategies_ = <<>>
    THEN [scores |-> <<>>, best |-> None, below |-> FALSE, raised |-> "RuntimeError"]
    ELSE IF \E k \in DOMAIN strategies_ : strategies_[k] = Abstract
    THEN [scores |-> <<>>, best |-> None, below |-> FALSE, raised |-> "TypeError"]
    ELSE AutoDetectScored(strategies_, confidence_threshold_, content_)

\* s.lower()
StrLower(str) == [k \in DOMAIN str |-> ToLower(str[k])]

\* whether old starts at index k of str
OccursAt(str, old, k) ==
    k + Len(old) - 1 <= Len(str) /\ SubSeq(str, k, k + Len(old) - 1) = old

\* str.replace(old, ""), from index k on: the occurrences of old are taken
\* from the left and do not overlap
RECURSIVE Removed(_, _, _)
Removed(str, old, k) ==
    IF k > Len(str) THEN <<>>
    ELSE IF OccursAt(str, old, k) THEN Removed(str, old, k + Len(old))
    ELSE <<str[k]>> \o Removed(str, old, k + 1)

\* str.split(sep)[0]
SplitFirst(str, sep) ==
    IF \E k \in DOMAIN str : OccursAt(str, sep, k)
    THEN SubSeq(str, 1, (CHOOSE k \in DOMAIN str :
                            /\ OccursAt(str, sep, k)
                            /\ \A j \in 1..(k - 1) : ~OccursAt(str, sep, j)) - 1)
    ELSE str

\* strategy_class.__name__; the subclass "custom" is given a name that shares
\* its first word with ThesisParsingStrategy
ClassName(class) ==
    CASE class = "thesis" -> <<"T", "h", "e", "s", "i", "s", "P", "a", "r", "s", "i", "n", "g", "S", "t", "r", "a", "t", "e", "g", "y">>
      [] class = "conference" -> <<"C", "o", "n", "f", "e", "r", "e", "n", "c", "e", "P", "a", "p", "e", "r", "S", "t", "r", "a", "t", "e", "g", "y">>
      [] class = "journal" -> <<"J", "o", "u", "r", "n", "a", "l", "P", "a", "p", "e", "r", "S", "t", "r", "a", "t", "e", "g", "y">>
      [] class = "custom" -> <<"T", "h", "e", "s", "i", "s", "S", "t", "r", "a", "t", "e", "g", "y">>
      [] class = Abstract -> <<"P", "a", "r", "s", "i", "n", "g", "S", "t", "r", "a", "t", "e", "g", "y">>

\* the set simplified_names that create_strategy builds for one class
SimplifiedNames(class_name_lower) ==
    {class_name_lower,
     Removed(class_name_lower, <<"p", "a", "r", "s", "i", "n", "g", "s", "t", "r", "a", "t", "e", "g", "y">>, 1),
     Removed(class_name_lower, <<"s", "t", "r", "a", "t", "e", "g", "y">>, 1),
     Removed(class_name_lower, <<"p", "a", "p", "e", "r", "s", "t", "r", "a", "t", "e", "g", "y">>, 1),
     Removed(class_name_lower, <<"p", "a", "p", "e", "r">>, 1)}
    \cup {SplitFirst(class_name_lower, sep) :
             sep \in {<<"p", "a", "p", "e", "r">>, <<"p", "a", "r", "s", "i", "n", "g">>, <<"s", "t", "r", "a", "t", "e", "g", "y">>}}

\* SimplifiedNames of the classes
NamesOf == [class \in Subclasses |-> SimplifiedNames(StrLower(ClassName(class)))]

\* strategy_name = None: a sequence that is no string
NoName == <<None>>

\* the strings that the calls are made with as strategy_name
RequestedNames ==
    {<<"t", "h", "e", "s", "i", "s">>, <<"T", "h", "e", "s", "i", "s">>, <<"T", "H", "E", "S", "I", "S", "P", "A", "R", "S", "I", "N", "G">>, <<"C", "o", "n", "f", "e", "r", "e", "n", "c", "e", "P", "a", "p", "e", "r">>,
     <<"j", "o", "u", "r", "n", "a", "l", "p", "a", "p", "e", "r", "s", "t", "r", "a", "t", "e", "g", "y">>, <<"t", "h", "e", "s", "i", "s", "s", "t", "r", "a", "t", "e", "g", "y">>, <<"p", "a", "r", "s", "i", "n", "g">>, <<"b", "o", "o", "k">>, <<>>}

\* the loop of create_strategy without its return: the last registered class of
\* a matching name, from the k-th on
RECURSIVE NamedLastFrom(_, _, _)
NamedLastFrom(strategies_, strategy_name_lower, k) ==
    IF k > Len(strategies_) THEN None
    ELSE LET later == NamedLastFrom(strategies_, strategy_name_lower, k + 1)
         IN  IF later # None THEN later
             ELSE IF strategy_name_lower \in NamesOf[strategies_[k]] THEN strategies_[k]
             ELSE None

\* the loop of create_strategy from the k-th registered class on: the class whose
\* instance it returns, or None when it leaves the loop
RECURSIVE NamedFrom(_, _, _)
NamedFrom(strategies_, strategy_name_lower, k) ==
    IF k > Len(strategies_) THEN None
    ELSE IF strategy_name_lower \in NamesOf[strategies_[k]] THEN strategies_[k]
    ELSE NamedFrom(strategies_, strategy_name_lower, k + 1)

\* create_strategy
CreateStrategy(strategies_, confidence_threshold_, strategy_name_, content_) ==
    IF strategy_name_ = NoName
    THEN [available |-> <<>>] @@ AutoDetect(strategies_, confidence_threshold_, content_)
    ELSE LET found(strategy_class) ==
                 IF strategy_class # None
                 THEN [scores |-> <<>>, best |-> strategy_class, below |-> FALSE,
                       raised |-> None, available |-> <<>>]
                 ELSE [scores |-> <<>>, best |-> None, below |-> FALSE,
                       raised |-> "ValueError",
                       available |-> [k \in DOMAIN strategies_ |->
                                         ClassName(strategies_[k])]]
             made(strategy_class) ==
                 IF strategy_class = Abstract
                 THEN [scores |-> <<>>, best |-> None, below |-> FALSE,
                       raised |-> "TypeError", available |-> <<>>]
                 ELSE found(strategy_class)
         IN  made(NamedFrom(strategies_, StrLower(strategy_name_), 1))

\* no list returned yet
NotListed == [list |-> <<>>, is_strategies |-> FALSE]

\* get_registered_strategies with "return cls._strategies"
GetRegisteredStrategiesNoCopy(strategies_) ==
    [list |-> strategies_, is_strategies |-> TRUE]

\* get_registered_strategies: copy() makes a new list of the same elements
GetRegisteredStrategies(strategies_) ==
    [list |-> strategies_, is_strategies |-> FALSE]

\* no structural hint function called yet
NoScore == <<>>

\* one heading for each of the expected sections, in their order
FlowHeadings == <<
    <<"#", " ", "A", "b", "s", "t", "r", "a", "c", "t">>, <<"#", " ", "I", "n", "t", "r", "o", "d", "u", "c", "t", "i", "o", "n">>, <<"#", " ", "B", "a", "c", "k", "g", "r", "o", "u", "n", "d">>, <<"#", " ", "M", "e", "t", "h", "o", "d">>, <<"#", " ", "R", "E", "S", "U", "L", "T", "S">>,
    <<"#", " ", "A", "n", "a", "l", "y", "s", "i", "s">>, <<"#", " ", "C", "o", "n", "c", "l", "u", "s", "i", "o", "n", "s">>, <<"#", " ", "R", "e", "f", "e", "r", "e", "n", "c", "e", "s">> >>

\* the orders the headings are written in: that of the expected sections, the
\* first two exchanged, and the reverse
FlowOrders == {
    <<1, 2, 3, 4, 5, 6, 7, 8>>, <<2, 1, 3, 4, 5, 6, 7, 8>>, <<8, 7, 6, 5, 4, 3, 2, 1>> }

\* the documents the hint function is called on: some of the headings, in one
\* of the orders
FlowDocs ==
    {Join(<<"\n">>, [k \in DOMAIN picked |-> FlowHeadings[picked[k]]]) :
        picked \in {SelectSeq(order, LAMBDA h : h \in some) :
                       order \in FlowOrders, some \in SUBSET (DOMAIN FlowHeadings)}}
MaxQueryLines == 3
MaxDeepLines == 4
MaxDepth == 5
MaxCalls == 2

\* the keyword dicts of the queries made
Queries == <<
    <<>>,
    << <<"level", 1>> >>,
    << <<"level", 2>> >>,
    << <<"description", "section">> >>,
    << <<"title", <<"1">>>> >>,
    << <<"exact_title", <<"1", ".", "1">>>> >>,
    << <<"level", 2>>, <<"title", <<"S">>>> >>,
    << <<"title", <<"e">>>>, <<"description", "subsection">> >>,
    << <<"line", 0>> >> >>

VARIABLES
    builder,            \* which parse runs: "generic" is ParsingStrategy._generic_parse
    table,              \* the strategy class whose keywords_config is used
    lines,              \* the lines of the input read so far
    len_lines,          \* len(lines) of the input
    i,                  \* the loop index (0-based)
    stage,
    metadata,
    nodes,              \* the node dicts created, by id
    tree,
    node_stack,
    last_part,
    last_description,
    pc,                 \* "parse": in the loop, "done": returned, "raised": an exception,
                        \* "idle": no parse call
    calls,              \* the number of parse calls on these lines so far
    first,              \* what the first parse call returned
    call,               \* the last call on the query layer or the classifier
    kwargs,             \* its keyword dict
    found_nodes,        \* what _find_nodes returned (in get_section_content: its
                        \* local found_nodes)
    section_content,    \* what get_section_content returned
    render_of,          \* <<node, depth>> of the last _node_to_markdown call
    rendered,           \* what it returned
    cl_table, cl_text,  \* the arguments of the last _match_keyword_level call
    cl_result,          \* what it returned
    strategies,         \* StrategyFactory._strategies, the registry
    confidence_threshold, \* StrategyFactory.CONFIDENCE_THRESHOLD
    content,            \* the document handed to detect and auto_detect
    strategy,           \* the class the last call on the factory was given, or the
                        \* class whose detect was called
    threshold,          \* the argument of the last set_confidence_threshold call
    detected,           \* what detect returned, with its locals score and max_score
    scores,             \* the dict scores of the last auto_detect call
    best,               \* the class of the instance it returned
    below,              \* whether its test "best_score < CONFIDENCE_THRESHOLD" held
    raised,             \* the exception the last call on the factory raised, or None
    strategy_name,      \* the argument strategy_name of the last create_strategy call
    available,          \* the list "available" in the message of its ValueError
    listed,             \* the list get_registered_strategies returned, as the caller
                        \* holds it, and whether it is the object _strategies
    hint_score          \* what the last call of a structural hint function returned

parse_vars == <<builder, table, lines, len_lines, i, stage, metadata, nodes, tree,
                node_stack, last_part, last_description, pc, calls, first>>
query_vars == <<call, kwargs, found_nodes, section_content, render_of, rendered>>
classify_vars == <<cl_table, cl_text, cl_result>>
factory_vars == <<strategies, confidence_threshold, content, strategy, threshold,
                  detected, scores, best, below, raised, strategy_name, available,
                  listed, hint_score>>
vars == <<parse_vars, query_vars, classify_vars, factory_vars>>

Locals ==
    [i |-> i, stage |-> stage, metadata |-> metadata, nodes |-> nodes, tree |-> tree,
     node_stack |-> node_stack, last_part |-> last_part,
     last_description |-> last_description, err |-> FALSE]

Assign(s) ==
    /\ i' = s.i
    /\ stage' = s.stage
    /\ metadata' = s.metadata
    /\ nodes' = s.nodes
    /\ tree' = s.tree
    /\ node_stack' = s.node_stack
    /\ last_part' = s.last_part
    /\ last_description' = s.last_description

\* one iteration of a parse loop took the locals to s
Iterate(s) == Assign(s) /\ pc' = IF s.err THEN "raised" ELSE pc

\* lines[i] is raw
Read(raw) ==
    /\ raw \in Catalogue(builder, table)
    /\ IF i < Len(lines) THEN raw = lines[i + 1] /\ lines' = lines
       ELSE lines' = Append(lines, raw)

\* the assignments before the loop of a builder
NoLocals ==
    [i |-> 0, stage |-> 0, metadata |-> <<>>, nodes |-> <<>>, tree |-> <<>>,
     node_stack |-> <<>>, last_part |-> FALSE, last_description |-> None, err |-> FALSE]

\* A faulty variant of StartLocals: tree and the nodes are kept from the previous
\* call on the instance (as if they were attributes created once).
StartLocalsShared(prev) ==
    [NoLocals EXCEPT !.nodes = prev.nodes, !.tree = prev.tree]

\* The locals at the start of a parse call.  Every builder creates them anew;
\* prev, the locals the previous call on the same strategy instance ended with,
\* plays no part.
StartLocals(prev) == NoLocals

QueryIdle ==
    /\ call = "none"
    /\ kwargs = <<>>
    /\ found_nodes = <<>>
    /\ section_content = <<>>
    /\ render_of = <<0, 0>>
    /\ rendered = <<>>

ClassifyIdle ==
    /\ cl_table = "thesis"
    /\ cl_text = <<>>
    /\ cl_result = NoMatch

\* no call on the factory or on detect yet
NoCall ==
    /\ strategy = None
    /\ threshold = None
    /\ detected = None
    /\ scores = <<>>
    /\ best = None
    /\ below = FALSE
    /\ raised = None
    /\ strategy_name = NoName
    /\ available = <<>>
    /\ listed = NotListed
    /\ hint_score = NoScore

\* the class attributes of StrategyFactory when factory.py is loaded
FactoryIdle ==
    /\ strategies = <<>>
    /\ confidence_threshold = DefaultThreshold
    /\ content = <<>>
    /\ NoCall

ParseIdle ==
    /\ builder = "generic" /\ table = "thesis"
    /\ lines = <<>> /\ len_lines = 0
    /\ i = 0 /\ stage = 0 /\ metadata = <<>> /\ nodes = <<>> /\ tree = <<>>
    /\ node_stack = <<>> /\ last_part = FALSE /\ last_description = None
    /\ pc = "idle" /\ calls = 0 /\ first = <<>>

\* a strategy is chosen and its parse is called on a list of at most n lines
ParseCalled(n) ==
    /\ builder \in {"generic", "thesis", "conference", "journal"}
    /\ table \in Tables
    /\ builder # "generic" => table = builder
    /\ len_lines \in 0..n
    /\ lines = <<>>
    /\ i = NoLocals.i /\ stage = NoLocals.stage /\ metadata = NoLocals.metadata
    /\ nodes = NoLocals.nodes /\ tree = NoLocals.tree
    /\ node_stack = NoLocals.node_stack /\ last_part = NoLocals.last_part
    /\ last_description = NoLocals.last_description
    /\ pc = "parse" /\ calls = 1 /\ first = <<>>

Init == ParseCalled(MaxLines) /\ QueryIdle /\ ClassifyIdle /\ FactoryIdle

GenericStep ==
    /\ pc = "parse" /\ builder = "generic" /\ i < len_lines
    /\ \E raw \in Catalogue(builder, table) :
          Read(raw) /\ Iterate(GenericIter(Locals, table, raw))
    /\ UNCHANGED <<builder, table, len_lines, calls, first, query_vars, classify_vars,
                   factory_vars>>

ThesisStep ==
    /\ pc = "parse" /\ builder = "thesis" /\ i < len_lines
    /\ \E raw \in Catalogue(builder, table) :
          Read(raw) /\ Iterate(ThesisIter(Locals, raw))
    /\ UNCHANGED <<builder, table, len_lines, calls, first, query_vars, classify_vars,
                   factory_vars>>

ConferenceStep ==
    /\ pc = "parse" /\ builder = "conference" /\ i < len_lines
    /\ \E raw \in Catalogue(builder, table) :
          Read(raw) /\ Iterate(ConferenceIter(Locals, raw))
    /\ UNCHANGED <<builder, table, len_lines, calls, first, query_vars, classify_vars,
                   factory_vars>>

JournalStep ==
    /\ pc = "parse" /\ builder = "journal" /\ i < len_lines
    /\ \E raw \in Catalogue(builder, table) :
          Read(raw) /\ Iterate(JournalIter(Locals, raw))
    /\ UNCHANGED <<builder, table, len_lines, calls, first, query_vars, classify_vars,
                   factory_vars>>

\* the loop ends and parse returns (metadata, tree)
Return ==
    /\ pc = "parse" /\ i >= len_lines
    /\ pc' = "done"
    /\ first' = IF calls = 1 THEN <<metadata, tree, nodes>> ELSE first
    /\ UNCHANGED <<builder, table, lines, len_lines, i, stage, metadata, nodes, tree,
                   node_stack, last_part, last_description, calls, query_vars,
                   classify_vars, factory_vars>>

Next == GenericStep \/ ThesisStep \/ ConferenceStep \/ JournalStep \/ Return

Spec == Init /\ [][Next]_vars

----------------------------------------------------------------------------
(* A second parse of the same lines by the same strategy instance          *)
(* (MarkdownParser._parse called again).                                   *)

ParseAgain ==
    /\ pc = "done" /\ calls < MaxCalls
    /\ Assign(StartLocals(Locals))
    /\ pc' = "parse"
    /\ calls' = calls + 1
    /\ UNCHANGED <<builder, table, lines, len_lines, first, query_vars, classify_vars,
                   factory_vars>>

InitAgain == ParseCalled(MaxQueryLines) /\ QueryIdle /\ ClassifyIdle /\ FactoryIdle
NextAgain == Next \/ ParseAgain
SpecAgain == InitAgain /\ [][NextAgain]_vars

----------------------------------------------------------------------------
(* Queries on the tree a parse returned.                                   *)

\* Each call sets the variables of its result; the results of other calls are
\* forgotten.
\* _find_nodes(self.parse_tree, **kwargs) or get_section_content(**kwargs)
QueryCall ==
    /\ pc = "done"
    /\ \E q \in DOMAIN Queries, method \in {"find_nodes", "get_section_content"} :
          LET r == IF method = "find_nodes"
                   THEN [found_nodes |-> FindNodes(nodes, tree, Queries[q]),
                         result |-> <<>>]
                   ELSE GetSectionContent(nodes, tree, Queries[q])
          IN  /\ call' = method
              /\ kwargs' = Queries[q]
              /\ found_nodes' = r.found_nodes
              /\ section_content' = r.result
    /\ render_of' = <<0, 0>> /\ rendered' = <<>>
    /\ UNCHANGED <<parse_vars, classify_vars, factory_vars>>

NodeToMarkdownCall ==
    /\ pc = "done"
    /\ \E n \in DOMAIN nodes, depth \in 0..MaxDepth :
          /\ render_of' = <<n, depth>>
          /\ rendered' = NodeToMarkdown(nodes, n, depth)
    /\ call' = "node_to_markdown"
    /\ kwargs' = <<>> /\ found_nodes' = <<>> /\ section_content' = <<>>
    /\ UNCHANGED <<parse_vars, classify_vars, factory_vars>>

InitQuery == ParseCalled(MaxQueryLines) /\ QueryIdle /\ ClassifyIdle /\ FactoryIdle
NextQuery == Next \/ QueryCall \/ NodeToMarkdownCall
SpecQuery == InitQuery /\ [][NextQuery]_vars

\* get_section_content on the trees of longer lists, whose chains of nested
\* nodes are deep enough for the cap of the heading level to apply
InitDeep == ParseCalled(MaxDeepLines) /\ QueryIdle /\ ClassifyIdle /\ FactoryIdle
\* the first query on the tree of a parse
FirstQuery == call = "none" /\ QueryCall
NextDeep == Next \/ FirstQuery
SpecDeep == InitDeep /\ [][NextDeep]_vars

----------------------------------------------------------------------------
(* The classifier on its own.                                              *)

Classify ==
    /\ \E t \in Tables, text \in ClassifyTexts :
          /\ cl_table' = t
          /\ cl_text' = text
          /\ cl_result' = KeywordLevel(t, text)
    /\ call' = "match_keyword_level"
    /\ UNCHANGED <<parse_vars, kwargs, found_nodes, section_content, render_of, rendered,
                   factory_vars>>

InitClassify == ParseIdle /\ QueryIdle /\ ClassifyIdle /\ FactoryIdle
SpecClassify == InitClassify /\ [][Classify]_vars

----------------------------------------------------------------------------
(* detect on its own: one document, and detect called on instances of the  *)
(* strategy classes.                                                       *)

DetectCall ==
    /\ \E class \in Classes :
          /\ strategy' = class
          /\ detected' = Detected(class, content)
    /\ call' = "detect"
    /\ UNCHANGED <<parse_vars, kwargs, found_nodes, section_content, render_of, rendered,
                   classify_vars, hint_score, strategies, confidence_threshold, content, threshold,
                   scores, best, below, raised, strategy_name, available, listed>>

InitDetect ==
    /\ ParseIdle /\ QueryIdle /\ ClassifyIdle
    /\ strategies = <<>>
    /\ confidence_threshold = DefaultThreshold
    /\ content \in Docs
    /\ NoCall

SpecDetect == InitDetect /\ [][DetectCall]_vars

----------------------------------------------------------------------------
(* The registry and auto_detect: one document, and calls on the factory.   *)

\* StrategyFactory.register_strategy(strategy_class), with an argument of the
\* set given
RegisterStrategyOf(arguments) ==
    /\ \E strategy_class \in arguments :
          LET r == Register(strategies, strategy_class)
          IN  /\ strategy' = strategy_class
              /\ strategies' = r.strategies
              /\ raised' = r.raised
    /\ call' = "register_strategy"
    /\ threshold' = None /\ detected' = None /\ scores' = <<>> /\ best' = None
    /\ below' = FALSE
    /\ strategy_name' = NoName /\ available' = <<>> /\ listed' = NotListed
    /\ UNCHANGED <<parse_vars, kwargs, found_nodes, section_content, render_of, rendered,
                   classify_vars, hint_score, confidence_threshold, content>>

\* the arguments register_strategy is called with: the concrete classes and an
\* object that is no class
RegisterArguments == Classes \cup {NotAStrategy}

RegisterStrategy == RegisterStrategyOf(RegisterArguments)

\* StrategyFactory.unregister_strategy(strategy_class), with an argument of the
\* set given
UnregisterStrategyOf(arguments) ==
    /\ \E strategy_class \in arguments :
          /\ strategy' = strategy_class
          /\ strategies' = Unregister(strategies, strategy_class)
    /\ call' = "unregister_strategy"
    /\ threshold' = None /\ detected' = None /\ scores' = <<>> /\ best' = None
    /\ below' = FALSE /\ raised' = None
    /\ strategy_name' = NoName /\ available' = <<>> /\ listed' = NotListed
    /\ UNCHANGED <<parse_vars, kwargs, found_nodes, section_content, render_of, rendered,
                   classify_vars, hint_score, confidence_threshold, content>>

UnregisterStrategy == UnregisterStrategyOf(Classes)

\* StrategyFactory.set_confidence_threshold(threshold)
SetConfidenceThresholdCall ==
    /\ \E t \in Thresholds :
          LET r == SetConfidenceThreshold(confidence_threshold, t)
          IN  /\ threshold' = t
              /\ confidence_threshold' = r.confidence_threshold
              /\ raised' = r.raised
    /\ call' = "set_confidence_threshold"
    /\ strategy' = None /\ detected' = None /\ scores' = <<>> /\ best' = None
    /\ below' = FALSE
    /\ strategy_name' = NoName /\ available' = <<>> /\ listed' = NotListed
    /\ UNCHANGED <<parse_vars, kwargs, found_nodes, section_content, render_of, rendered,
                   classify_vars, hint_score, strategies, content>>

\* StrategyFactory.auto_detect(content, lines)
AutoDetectCall ==
    /\ \E r \in {AutoDetect(strategies, confidence_threshold, content)} :
          /\ scores' = r.scores
          /\ best' = r.best
          /\ below' = r.below
          /\ raised' = r.raised
    /\ call' = "auto_detect"
    /\ strategy' = None /\ threshold' = None /\ detected' = None
    /\ strategy_name' = NoName /\ available' = <<>> /\ listed' = NotListed
    /\ UNCHANGED <<parse_vars, kwargs, found_nodes, section_content, render_of, rendered,
                   classify_vars, hint_score, strategies, confidence_threshold, content>>

\* StrategyFactory.create_strategy(strategy_name, content, lines)
CreateStrategyCall ==
    /\ \E name \in RequestedNames \cup {NoName} :
          /\ strategy_name' = name
          /\ \E r \in {CreateStrategy(strategies, confidence_threshold, name, content)} :
                /\ scores' = r.scores
                /\ best' = r.best
                /\ below' = r.below
                /\ raised' = r.raised
                /\ available' = r.available
    /\ call' = "create_strategy"
    /\ strategy' = None /\ threshold' = None /\ detected' = None /\ listed' = NotListed
    /\ UNCHANGED <<parse_vars, kwargs, found_nodes, section_content, render_of, rendered,
                   classify_vars, hint_score, strategies, confidence_threshold, content>>

\* factory.py loaded on its own (the registry is empty), or by importing
\* markdown_parser, which registers the three classes of the package
InitFactory ==
    /\ ParseIdle /\ QueryIdle /\ ClassifyIdle
    /\ strategies \in {<<>>, <<"thesis", "conference", "journal">>}
    /\ confidence_threshold = DefaultThreshold
    /\ content \in FactoryDocs
    /\ NoCall

\* StrategyFactory.get_registered_strategies()
GetRegisteredStrategiesCall ==
    /\ listed' = GetRegisteredStrategies(strategies)
    /\ call' = "get_registered_strategies"
    /\ strategy' = None /\ threshold' = None /\ detected' = None /\ scores' = <<>>
    /\ best' = None /\ below' = FALSE /\ raised' = None
    /\ strategy_name' = NoName /\ available' = <<>>
    /\ UNCHANGED <<parse_vars, kwargs, found_nodes, section_content, render_of, rendered,
                   classify_vars, hint_score, strategies, confidence_threshold, content>>

\* the caller changes the list it was returned: append, remove of an element, or
\* clear; a list that is the object _strategies changes the registry with it
ListedModified ==
    /\ call = "get_registered_strategies"
    /\ \E changed \in {Append(listed.list, class) : class \in Classes}
                      \cup {Unregister(listed.list, class) : class \in Classes}
                      \cup {<<>>} :
          /\ changed # listed.list
          /\ listed' = [listed EXCEPT !.list = changed]
          /\ strategies' = IF listed.is_strategies THEN changed ELSE strategies
    /\ call' = "listed_modified"
    /\ UNCHANGED <<parse_vars, kwargs, found_nodes, section_content, render_of, rendered,
                   classify_vars, hint_score, confidence_threshold, content, strategy, threshold,
                   detected, scores, best, below, raised, strategy_name, available>>

NextFactory ==
    \/ RegisterStrategy \/ UnregisterStrategy \/ SetConfidenceThresholdCall
    \/ AutoDetectCall \/ CreateStrategyCall
    \/ GetRegisteredStrategiesCall \/ ListedModified

SpecFactory == InitFactory /\ [][NextFactory]_vars

----------------------------------------------------------------------------
(* The registry with every argument that register_strategy takes: the      *)
(* classes, the abstract base class and an object that is no class, on one *)
(* document.                                                               *)

AnyArguments == Subclasses \cup {NotAStrategy}

RegisterAny == RegisterStrategyOf(AnyArguments)

UnregisterAny == UnregisterStrategyOf(Subclasses)

InitRegistry ==
    /\ ParseIdle /\ QueryIdle /\ ClassifyIdle
    /\ strategies \in {<<>>, <<"thesis", "conference", "journal">>}
    /\ confidence_threshold = DefaultThreshold
    /\ content = DocOf(<<1, 2>>)
    /\ NoCall

NextRegistry ==
    \/ RegisterAny \/ UnregisterAny \/ AutoDetectCall \/ CreateStrategyCall
    \/ GetRegisteredStrategiesCall \/ ListedModified

SpecRegistry == InitRegistry /\ [][NextRegistry]_vars

----------------------------------------------------------------------------
(* A structural hint function on its own: one document, and the function   *)
(* called on it.                                                           *)

\* ConferencePaperStrategy()._check_standard_section_flow(content, lines)
CheckStandardSectionFlowCall ==
    /\ hint_score' = CheckStandardSectionFlow(content)
    /\ strategy' = "conference"
    /\ call' = "_check_standard_section_flow"
    /\ UNCHANGED <<parse_vars, kwargs, found_nodes, section_content, render_of, rendered,
                   classify_vars, strategies, confidence_threshold, content, threshold,
                   detected, scores, best, below, raised, strategy_name, available,
                   listed>>

InitFlow ==
    /\ ParseIdle /\ QueryIdle /\ ClassifyIdle
    /\ strategies = <<>>
    /\ confidence_threshold = DefaultThreshold
    /\ content \in FlowDocs
    /\ NoCall

SpecFlow == InitFlow /\ [][CheckStandardSectionFlowCall]_vars
----------------------------------------------------------------------------
(* Properties of the builders.                                             *)

\* the nodes that hold n in their children list
Parents(n) ==
    {p \in DOMAIN nodes : \E k \in DOMAIN nodes[p].children : nodes[p].children[k] = n}

\* C1: in the tree a builder returns, the level of every child is strictly
\* greater than the level of its parent.
ChildLevelAboveParent ==
    pc = "done" =>
        \A n \in DOMAIN nodes : \A p \in Parents(n) : nodes[n].level > nodes[p].level

\* a returned tree where a node was nested, and a later heading closed it and
\* became a root
NestedThenClosed ==
    /\ pc = "done"
    /\ \E n, r \in DOMAIN nodes :
          /\ Parents(n) # {}
          /\ r > n
          /\ \E k \in DOMAIN tree : tree[k] = r

\* the heading line a node was made from
HeadingOf(n) == Strip(lines[nodes[n].line + 1])

\* C2: a heading whose pattern-table entry has level -1 is never placed in the
\* tree, by no builder: no node of a returned tree was made from such a heading.
MetadataHeadingsNotInTree ==
    pc = "done" =>
        \A n \in DOMAIN nodes :
            LET m == KeywordLevel(table, HeadingOf(n))
            IN  ~(IsHeading(HeadingOf(n)) /\ m.found /\ m.level = -1)

----------------------------------------------------------------------------
(* Properties of the classifier.                                           *)

\* the entries of the table whose pattern is found somewhere in the text
MatchingEntries(config, text) ==
    {k \in DOMAIN config : ReSearch(config[k].keyword, text, NoFlags)}

\* C3: _match_keyword_level returns the level and description of the first
\* entry, in declared order, whose pattern is found in the text, and
\* (None, None) when no entry's pattern is found.
FirstMatchingEntryWins ==
    call = "match_keyword_level" =>
        LET config == KeywordsConfig(cl_table)
            hits == MatchingEntries(config, cl_text)
        IN  IF hits = {} THEN cl_result = NoMatch
            ELSE LET k == CHOOSE j \in hits : \A h \in hits : j <= h
                 IN  /\ cl_result.found
                     /\ cl_result.level = config[k].level
                     /\ cl_result.description = config[k].description

\* a text that two entries of different level match was classified
TwoEntriesMatched ==
    /\ call = "match_keyword_level"
    /\ LET config == KeywordsConfig(cl_table)
       IN  \E j, h \in MatchingEntries(config, cl_text) :
              j < h /\ config[j].level # config[h].level

----------------------------------------------------------------------------
(* Properties of the query layer.  The tree is described without the       *)
(* traversals of the code: by the parent relation and the path of a node.  *)

\* the places a node hangs at: <<0, k>> is tree[k], <<p, k>> is the k-th child of p
Places(n) ==
    {<<0, k>> : k \in {j \in DOMAIN tree : tree[j] = n}}
        \cup {x \in (DOMAIN nodes) \X (DOMAIN nodes) :
                 /\ x[2] \in DOMAIN nodes[x[1]].children
                 /\ nodes[x[1]].children[x[2]] = n}

RECURSIVE InTree(_)
InTree(n) == (\E k \in DOMAIN tree : tree[k] = n) \/ \E p \in Parents(n) : InTree(p)

\* the nodes of the tree: the roots and all nested descendants
TreeNodes == {n \in DOMAIN nodes : InTree(n)}

\* the child indices on the way from the root sequence down to n
RECURSIVE Path(_)
Path(n) ==
    LET at == CHOOSE x \in Places(n) : TRUE
    IN  IF at[1] = 0 THEN <<at[2]>> ELSE Path(at[1]) \o <<at[2]>>

IsPrefix(x, y) == Len(x) <= Len(y) /\ SubSeq(y, 1, Len(x)) = x

\* pre-order on paths: an ancestor before its descendants, and an earlier
\* sibling's subtree before a later sibling's
PathBefore(x, y) ==
    \/ IsPrefix(x, y) /\ x # y
    \/ \E k \in 1..Min(Len(x), Len(y)) :
          SubSeq(x, 1, k - 1) = SubSeq(y, 1, k - 1) /\ x[k] < y[k]

InPreOrder(s) ==
    \A k, l \in DOMAIN s : k < l => PathBefore(Path(s[k]), Path(s[l]))

Range(s) == {s[k] : k \in DOMAIN s}

\* C7: _find_nodes without criteria returns every node of the tree, roots and
\* nested ones, each once, in pre-order.
FindNodesNoFilterAllPreOrder ==
    (call = "find_nodes" /\ Len(kwargs) = 0) =>
        /\ \A n \in TreeNodes : Cardinality(Places(n)) = 1
        /\ Range(found_nodes) = TreeNodes
        /\ Len(found_nodes) = Cardinality(TreeNodes)
        /\ InPreOrder(found_nodes)

\* an unfiltered search of a tree with two roots, the first with a child
FoundRootsAndNested ==
    /\ call = "find_nodes" /\ Len(kwargs) = 0
    /\ Len(tree) >= 2
    /\ nodes[tree[1]].children # <<>>
    /\ Len(found_nodes) >= 3

IsSubstring(sub, s) ==
    \E p \in 0..(Len(s) - Len(sub)) : \A j \in 1..Len(sub) : s[p + j] = sub[j]

\* a node passes every criterion given
Satisfies(node, kw) ==
    \A k \in DOMAIN kw :
        LET key == kw[k][1]
            value == kw[k][2]
        IN  /\ key = "level" => node.level = value
            /\ key = "description" => node.description = value
            /\ key = "title" => IsSubstring(value, node.title)
            /\ key = "exact_title" => node.title = value

Matching(kw) == {n \in TreeNodes : Satisfies(nodes[n], kw)}

\* C8: _find_nodes returns exactly the nodes that pass all criteria, in
\* pre-order, whether or not an ancestor passes too; get_section_content
\* returns "" when the tree is empty or no node passes.
FindNodesAllCriteria ==
    /\ call = "find_nodes" =>
          /\ Range(found_nodes) = Matching(kwargs)
          /\ InPreOrder(found_nodes)
    /\ (call = "get_section_content" /\ (Len(tree) = 0 \/ Matching(kwargs) = {})) =>
          section_content = <<>>

\* a search with two criteria that found a node and passed over a node that
\* meets one criterion and not the other
FoundWithTwoCriteria ==
    /\ call = "find_nodes" /\ Len(kwargs) = 2
    /\ found_nodes # <<>>
    /\ \E n \in TreeNodes :
          Satisfies(nodes[n], <<kwargs[1]>>) # Satisfies(nodes[n], <<kwargs[2]>>)

Clamp(x, lo, hi) == IF x < lo THEN lo ELSE IF x > hi THEN hi ELSE x

\* the length of the heading marker of a node rendered at a depth
MarkerLength(level, depth) ==
    IF level > 0 THEN Clamp(level + depth, 1, 6) ELSE 1 + depth

\* what a node contributes itself: the heading line and, when the trimmed
\* content is not empty, the content paragraph
OwnText(n, depth) ==
    [k \in 1..MarkerLength(nodes[n].level, depth) |-> "#"] \o <<" ">> \o nodes[n].title
        \o <<"\n", "\n">>
        \o (IF Strip(nodes[n].content) = <<>> THEN <<>>
            ELSE Strip(nodes[n].content) \o <<"\n", "\n">>)

\* a node and a node of its subtree (itself included)
Emitted(kw) ==
    {<<a, n>> \in Matching(kw) \X TreeNodes : IsPrefix(Path(a), Path(n))}

EmittedBefore(x, y) ==
    \/ PathBefore(Path(x[1]), Path(y[1]))
    \/ x[1] = y[1] /\ PathBefore(Path(x[2]), Path(y[2]))

\* the texts of a set of <<matching node, node below it>> pairs, in order
RECURSIVE EmittedText(_)
EmittedText(S) ==
    IF S = {} THEN <<>>
    ELSE LET x == CHOOSE x \in S : \A y \in S \ {x} : EmittedBefore(x, y)
         IN  OwnText(x[2], Len(Path(x[2])) - Len(Path(x[1]))) \o EmittedText(S \ {x})

\* C9: get_section_content is the concatenation, in pre-order of the matching
\* nodes, of the rendering at depth 0 of each matching node; nothing is
\* deduplicated, so a node is emitted once for each matching node among itself
\* and its ancestors.
SectionContentConcatenation ==
    call = "get_section_content" =>
        /\ section_content = EmittedText(Emitted(kwargs))
        /\ \A n \in TreeNodes :
              Cardinality({x \in Emitted(kwargs) : x[2] = n})
                  = Cardinality({a \in Matching(kwargs) : IsPrefix(Path(a), Path(n))})

\* a query matched a node with content and a node below it
MatchedNodeAndDescendant ==
    /\ call = "get_section_content"
    /\ \E a, n \in Matching(kwargs) :
          /\ a # n /\ IsPrefix(Path(a), Path(n))
          /\ nodes[a].content # <<>>

\* the rendering the claim describes
RECURSIVE Rendering(_, _), RenderingOfAll(_, _)
Rendering(n, depth) ==
    OwnText(n, depth) \o RenderingOfAll(nodes[n].children, depth + 1)
RenderingOfAll(ids, depth) ==
    IF ids = <<>> THEN <<>>
    ELSE Rendering(Head(ids), depth) \o RenderingOfAll(Tail(ids), depth)

\* C10: _node_to_markdown(node, depth) gives a heading marker of length
\* clamp(level + depth, 1, 6) when level > 0 and 1 + depth otherwise, the title,
\* the trimmed content when it is not empty, and each child at depth + 1 in
\* child order.
NodeToMarkdownShape ==
    call = "node_to_markdown" => rendered = Rendering(render_of[1], render_of[2])

\* a node of positive level with content and a child was rendered so deep that
\* the cap of 6 applies
RenderedBeyondCap ==
    /\ call = "node_to_markdown"
    /\ LET node == nodes[render_of[1]]
       IN  /\ node.level > 0
           /\ node.level + render_of[2] > 6
           /\ node.children # <<>>
           /\ Strip(node.content) # <<>>

----------------------------------------------------------------------------
(* Properties of single steps of the builders.  A step reads lines[i]; the  *)
(* line is the last of lines' when the step reads further than any before.  *)

\* the step creates a node
NodeCreated == Len(nodes') = Len(nodes) + 1

\* the open nodes a new node of the level leaves open
StillOpen(level) == SelectSeq(node_stack, LAMBDA n : nodes[n].level < level)

\* C11: attaching a node of level L closes every open node of level >= L; the
\* new node becomes the last child of the nearest node created before it whose
\* level is below L, when L > 0 and there is such an open node, and is
\* appended to the root sequence otherwise.
AttachClosesAndNests ==
    [][NodeCreated =>
          LET new == Len(nodes')
              L == nodes'[new].level
              lower == {n \in DOMAIN nodes : nodes[n].level < L}
              open == {n \in lower : \E k \in DOMAIN node_stack : node_stack[k] = n}
          IN  /\ node_stack' = Append(StillOpen(L), new)
              /\ nodes'[new].children = <<>>
              /\ IF L > 0 /\ open # {}
                 THEN LET parent == CHOOSE n \in lower : \A o \in lower : o <= n
                      IN  /\ parent \in open
                          /\ nodes'[parent].children = Append(nodes[parent].children, new)
                          /\ \A n \in DOMAIN nodes \ {parent} : nodes'[n] = nodes[n]
                          /\ tree' = tree
                 ELSE /\ \A n \in DOMAIN nodes : nodes'[n] = nodes[n]
                      /\ tree' = Append(tree, new)]_vars

\* two level-1 headings in a row became sibling roots, and the second root took
\* a child after a deeper node below it was closed
SiblingRootsAndReopenedParent ==
    /\ Len(tree) >= 2
    /\ nodes[tree[1]].level = 1 /\ nodes[tree[2]].level = 1
    /\ tree[2] = tree[1] + 1
    /\ \E a, b \in DOMAIN nodes[tree[2]].children :
          a < b /\ nodes[nodes[tree[2]].children[a]].level
                      > nodes[nodes[tree[2]].children[b]].level

----------------------------------------------------------------------------
(* Properties of the generic builder.  Line numbers below are 1-based       *)
(* positions in lines; the line field of a node is 0-based.                 *)

\* the line is a heading that the pattern table classifies: the generic
\* builder makes a node of it
Classified(k) ==
    IsHeading(Strip(lines[k])) /\ KeywordLevel(table, Strip(lines[k])).found

\* the lines a..b that make no node, each trimmed and followed by a newline
RECURSIVE TextBetween(_, _)
TextBetween(a, b) ==
    IF a > b THEN <<>>
    ELSE (IF Classified(a) THEN <<>> ELSE Strip(lines[a]) \o <<"\n">>)
             \o TextBetween(a + 1, b)

\* the position of the first heading after node n that made a node of a level
\* in the set; one past the end when there is none
NextNodeLine(n, levels) ==
    LET later == {nodes[m].line + 1 : m \in {x \in DOMAIN nodes :
                                                x > n /\ nodes[x].level \in levels}}
    IN  IF later = {} THEN Len(lines) + 1
        ELSE CHOOSE k \in later : \A j \in later : k <= j

\* C12 as the specification states it: in the tree the generic builder returns,
\* the content of a node is the text of the lines that make no node between its
\* heading and the next node of a level less than or equal to its own.
ContentUpToNextNodeOfLevelAtMostOwn ==
    (pc = "done" /\ builder = "generic") =>
        \A n \in DOMAIN nodes :
            nodes[n].content =
                TextBetween(nodes[n].line + 2,
                            NextNodeLine(n, {l \in -1..6 : l <= nodes[n].level}) - 1)

\* C12, amended: in the tree the generic builder returns, the content of a node
\* is the text of the lines that make no node between its heading and the next
\* heading that makes a node, of whatever level; the lines after a nested node
\* belong to the nested node.
ContentUpToNextNode ==
    (pc = "done" /\ builder = "generic") =>
        \A n \in DOMAIN nodes :
            nodes[n].content =
                TextBetween(nodes[n].line + 2, NextNodeLine(n, -1..6) - 1)

\* the generic builder returned a node with content, a node nested in it with
\* content of its own, and an unclassified heading taken as content
NestedNodeWithOwnContent ==
    /\ pc = "done" /\ builder = "generic"
    /\ \E p, n \in DOMAIN nodes :
          /\ p \in Parents(n)
          /\ nodes[p].content # <<>>
          /\ nodes[n].content # <<>>
    /\ \E k \in DOMAIN lines : IsHeading(Strip(lines[k])) /\ ~Classified(k)

\* C13: in the generic builder, a line that is no heading, or a heading the
\* table does not classify, is appended (trimmed, with a newline) to the content
\* of the node on top of the stack and changes nothing else; with an empty stack
\* the line is dropped and the result is left as it was; the metadata of the
\* generic builder is empty at all times.
GenericContentToStackTop ==
    /\ [](builder = "generic" => metadata = <<>>)
    /\ [][(builder = "generic" /\ i' = i + 1) =>
             LET line == Strip(lines'[i + 1])
             IN  ~(IsHeading(line) /\ KeywordLevel(table, line).found) =>
                     /\ tree' = tree
                     /\ node_stack' = node_stack
                     /\ metadata' = metadata
                     /\ IF node_stack = <<>> THEN nodes' = nodes
                        ELSE nodes' = [nodes EXCEPT ![node_stack[Len(node_stack)]].content
                                                         = @ \o line \o <<"\n">>]]_vars

\* the generic builder returned after it dropped a line read before the first
\* node and took an unclassified heading into the content of a nested node
DroppedLineAndHeadingAsContent ==
    /\ pc = "done" /\ builder = "generic"
    /\ nodes # <<>>
    /\ nodes[1].line >= 1
    /\ \E n \in DOMAIN nodes :
          /\ Parents(n) # {}
          /\ \E k \in DOMAIN lines :
                /\ k > nodes[n].line + 1
                /\ IsHeading(Strip(lines[k])) /\ ~Classified(k)
                /\ nodes[n].content = Strip(lines[k]) \o <<"\n">>

----------------------------------------------------------------------------
(* Properties of the thesis builder.                                       *)

\* the thesis loop is about to run its body on lines[i]
ThesisReads(st) == builder = "thesis" /\ pc = "parse" /\ i < len_lines /\ stage = st

\* the text without its whitespace
Squeeze(line) == SelectSeq(line, LAMBDA c : c \notin Whitespace)

\* the line marks the references: a heading of role references, or a line that
\* is no heading and holds the references marker alone
MarksReferences(line) ==
    IF IsHeading(line) THEN KeywordLevel("thesis", line).description = "references"
    ELSE Squeeze(line) = <<"u53c2", "u8003", "u6587", "u732e">>

\* the step leaves the tree as it is
TreeUntouched == nodes' = nodes /\ tree' = tree /\ node_stack' = node_stack

\* C14: in the BODY stage of the thesis builder, a references heading (or a
\* line that is no heading and holds the references marker alone) is attached
\* and sets the flag; the next heading read after that is not attached: the
\* step that reads it only moves to TRAILER, and TRAILER then reads the same
\* line and files it in a metadata bucket.
ReferencesThenTrailer ==
    /\ [][ThesisReads(3) =>
             LET line == Strip(lines'[i + 1])
             IN  IF last_part /\ IsHeading(line)
                 THEN /\ stage' = 4 /\ i' = i
                      /\ TreeUntouched /\ metadata' = metadata
                 ELSE /\ stage' = 3 /\ i' = i + 1
                      /\ last_part' = (last_part \/ MarksReferences(line))
                      /\ MarksReferences(line) =>
                            /\ NodeCreated
                            /\ nodes'[Len(nodes')].description = "references"]_vars
    /\ [][(ThesisReads(4) /\ IsHeading(Strip(lines'[i + 1]))) =>
             /\ TreeUntouched /\ i' = i + 1
             /\ \E key \in DOMAIN metadata' :
                   metadata'[key] =
                       (IF key \in DOMAIN metadata THEN metadata[key] ELSE <<>>)
                           \o <<"\n">> \o Strip(lines'[i + 1]) \o <<"\n">>]_vars

\* the thesis builder returned from TRAILER; the references were marked by a
\* line that is no heading, and the heading after it went to a bucket of its own
BareMarkerThenBucket ==
    /\ pc = "done" /\ builder = "thesis" /\ stage = 4
    /\ nodes # <<>>
    /\ nodes[Len(nodes)].description = "references"
    /\ ~IsHeading(HeadingOf(Len(nodes)))
    /\ DOMAIN metadata \ {"title", "raw"} # {}

\* C15: once the thesis builder is in TRAILER it stays there to the end of the
\* input, and the tree is frozen: no step creates a node or changes the
\* content or the children of one, and the tree returned is the tree at the
\* moment TRAILER was entered.
TrailerFreezesTree ==
    [][(builder = "thesis" /\ stage = 4) =>
          /\ stage' = 4
          /\ TreeUntouched
          /\ pc' \in {"parse", "done"}]_vars

\* the thesis builder returned from TRAILER after it read there a heading the
\* table gives a positive level, and a line more
TrailerReadChapterHeading ==
    /\ pc = "done" /\ builder = "thesis" /\ stage = 4
    /\ nodes # <<>>
    /\ \E k \in DOMAIN lines :
          /\ k > nodes[Len(nodes)].line + 1
          /\ k + 1 <= Len(lines)
          /\ IsHeading(Strip(lines[k]))
          /\ KeywordLevel("thesis", Strip(lines[k])).found
          /\ KeywordLevel("thesis", Strip(lines[k])).level > 0

\* the role of the bucket a TRAILER heading selects
BucketOf(heading) ==
    LET m == KeywordLevel("thesis", heading)
    IN  IF m.found THEN m.description ELSE "raw"

\* C16: in TRAILER every heading is classified again and selects the metadata
\* bucket of its role, "raw" when it has none; the heading line and the lines
\* after it up to the next heading are appended to that bucket; each line read
\* in TRAILER is appended to one metadata value and no other value changes.
TrailerFilesEveryLine ==
    [][ThesisReads(4) =>
          LET line == Strip(lines'[i + 1])
              heads == {k \in 1..(i + 1) : IsHeading(Strip(lines'[k]))}
              latest == CHOOSE k \in heads : \A j \in heads : j <= k
              key == BucketOf(Strip(lines'[latest]))
              text == IF IsHeading(line) THEN <<"\n">> \o line \o <<"\n">>
                      ELSE line \o <<"\n">>
          IN  /\ i' = i + 1
              /\ DOMAIN metadata' = DOMAIN metadata \cup {key}
              /\ metadata'[key] =
                     (IF key \in DOMAIN metadata THEN metadata[key] ELSE <<>>) \o text
              /\ \A k \in DOMAIN metadata \ {key} : metadata'[k] = metadata[k]]_vars

\* the thesis builder returned with a bucket of a role that holds its heading
\* and the line after it
BucketHoldsHeadingAndLine ==
    /\ pc = "done" /\ builder = "thesis" /\ stage = 4
    /\ Len(lines) >= 2
    /\ LET h == Strip(lines[Len(lines) - 1])
           l == Strip(lines[Len(lines)])
       IN  /\ IsHeading(h) /\ ~IsHeading(l)
           /\ BucketOf(h) \notin {"raw", "title"}
           /\ metadata[BucketOf(h)] = <<"\n">> \o h \o <<"\n">> \o l \o <<"\n">>

----------------------------------------------------------------------------
(* Properties of the conference and journal builders.                      *)

\* the conference or journal loop is about to run its body on lines[i]
PaperReads == builder \in {"conference", "journal"} /\ pc = "parse" /\ i < len_lines

\* the test that ends stage 1 (the author block) of the builder
EndsAuthors(line) ==
    IF builder = "conference" THEN StartsWith(line, <<"#", " ">>)
    ELSE StartsWith(line, <<"#", " ", "A", "b", "s", "t", "r", "a", "c", "t">>) \/ ReMatch(RomanHeading, line, NoFlags)

\* the new node is the last root or the last child of a node
Attached(new) ==
    \/ tree' # <<>> /\ tree'[Len(tree')] = new
    \/ \E p \in DOMAIN nodes :
          nodes'[p].children # <<>> /\ nodes'[p].children[Len(nodes'[p].children)] = new

\* C17: the conference and journal builders have no trailer: their stage is
\* never 4; from the title on, a heading that the table classifies (references,
\* acknowledgment and appendix among them) is attached to the tree as a node of
\* its role, at the latest when it is read again after it ended the author
\* block; so is every classified heading after a references node.
PaperHeadingsAlwaysAttached ==
    /\ [](builder \in {"conference", "journal"} => stage \in 0..3)
    /\ [][PaperReads =>
             LET line == Strip(lines'[i + 1])
                 m == KeywordLevel(builder, line)
                 after == \E n \in DOMAIN nodes : nodes[n].description = "references"
             IN  /\ after => stage = 3
                 /\ (IsHeading(line) /\ m.found /\ stage >= 1) =>
                       IF stage = 1 /\ EndsAuthors(line)
                       THEN stage' = 2 /\ i' = i /\ TreeUntouched
                       ELSE /\ NodeCreated /\ i' = i + 1
                            /\ nodes'[Len(nodes')].description = m.description
                            /\ nodes'[Len(nodes')].line = i
                            /\ Attached(Len(nodes'))]_vars

\* the conference builder returned a tree where a references node is followed
\* by an appendix node and by a node nested below the appendix
NodesAfterReferences ==
    /\ pc = "done" /\ builder = "conference"
    /\ \E r, a, n \in DOMAIN nodes :
          /\ r < a /\ a < n
          /\ nodes[r].description = "references"
          /\ nodes[a].description = "appendix"
          /\ a \in Parents(n)

----------------------------------------------------------------------------
(* The front-matter stage of the staged builders: stage 2 of the thesis    *)
(* builder (field "raw"), stage 1 of the conference and journal builders   *)
(* (field "authors").                                                      *)

FrontMatterStage == IF builder = "thesis" THEN 2 ELSE 1
FrontMatterField == IF builder = "thesis" THEN "raw" ELSE "authors"

\* a staged builder is about to run its loop body on lines[i] in its
\* front-matter stage
FrontMatterReads ==
    /\ builder \in {"thesis", "conference", "journal"}
    /\ pc = "parse" /\ i < len_lines
    /\ stage = FrontMatterStage

\* C18: in the front-matter stage of a staged builder a line that is no
\* heading is appended to the front-matter field and the stage goes on; a
\* heading line ends the stage, is not appended to the field (at most a
\* newline is), makes no node in that step and is read again by the next stage.
FrontMatterEndsAtHeading ==
    [][FrontMatterReads =>
          LET line == Strip(lines'[i + 1])
              field == metadata[FrontMatterField]
          IN  IF IsHeading(line)
              THEN /\ stage' = stage + 1
                   /\ i' = i
                   /\ metadata'[FrontMatterField] \in {field, field \o <<"\n">>}
                   /\ TreeUntouched
              ELSE /\ stage' = stage
                   /\ i' = i + 1
                   /\ metadata'[FrontMatterField] = field \o line \o <<"\n">>]_vars

\* the line holds the document-kind marker of a thesis
HoldsThesisMarker(line) == Contains(Squeeze(line), <<"u535a", "u58eb", "u5b66", "u4f4d", "u8bba", "u6587">>)

\* the positions, among the lines the loop is done with, of the headings that
\* hold the marker
MarkerHeadings ==
    {k \in 1..i : IsHeading(Strip(lines[k])) /\ HoldsThesisMarker(Strip(lines[k]))}

\* C19: the thesis builder ignores every line before the first heading that
\* holds the marker; the line after that heading, heading or not, gives
\* metadata["title"] (heading markers stripped) and the start of
\* metadata["raw"]; without a marker heading metadata and tree stay empty;
\* metadata has "raw" exactly when it has "title".
TitleFollowsFirstMarker ==
    builder = "thesis" =>
        /\ ("raw" \in DOMAIN metadata) <=> ("title" \in DOMAIN metadata)
        /\ IF MarkerHeadings = {}
           THEN stage = 0 /\ metadata = <<>> /\ nodes = <<>> /\ tree = <<>>
           ELSE LET marker == CHOOSE k \in MarkerHeadings : \A j \in MarkerHeadings : k <= j
                IN  /\ \A n \in DOMAIN nodes : nodes[n].line > marker
                    /\ IF i = marker
                       THEN stage = 1 /\ metadata = <<>> /\ nodes = <<>> /\ tree = <<>>
                       ELSE LET title == Title(Strip(lines[marker + 1]))
                            IN  /\ stage >= 2
                                /\ metadata["title"] = title
                                /\ IsPrefix(<<"#", " ", "t", "i", "t", "l", "e", ":", " ">> \o title \o <<"\n", "\n">>,
                                            metadata["raw"])

\* the thesis builder returned after it passed over a heading before the
\* marker and took a heading line as the title
HeadingTakenAsTitle ==
    /\ pc = "done" /\ builder = "thesis"
    /\ Len(lines) >= 4
    /\ IsHeading(Strip(lines[1])) /\ ~HoldsThesisMarker(Strip(lines[1]))
    /\ MarkerHeadings # {} /\ 2 \in MarkerHeadings
    /\ IsHeading(Strip(lines[3]))
    /\ metadata["title"] = Title(Strip(lines[3]))
    /\ nodes # <<>>

----------------------------------------------------------------------------
(* Failure semantics of the staged builders.                               *)

\* C20: the thesis, conference and journal builders never raise, whatever the
\* lines: no statement appends to a metadata key that is absent (the model
\* raises KeyError there); and they return: an iteration that does not go on
\* to the next line moves to a later stage, of which there are five.
StagedBuildersNeverRaise ==
    /\ [](builder \in {"thesis", "conference", "journal"} =>
             pc \in {"parse", "done"} /\ stage \in 0..4)
    /\ [][(builder \in {"thesis", "conference", "journal"} /\ pc = "parse") =>
             \/ pc' = "done" /\ i >= len_lines /\ UNCHANGED <<metadata, tree, nodes>>
             \/ pc' = "parse" /\ i' = i + 1 /\ stage' >= stage
             \/ pc' = "parse" /\ i' = i /\ stage' > stage]_vars

\* the journal builder returned after it appended to the authors field and
\* stored the index terms
AuthorsAndIndexTerms ==
    /\ pc = "done" /\ builder = "journal"
    /\ "authors" \in DOMAIN metadata /\ metadata["authors"] # <<>>
    /\ "index_terms" \in DOMAIN metadata
    /\ nodes # <<>>

----------------------------------------------------------------------------
(* Properties of detection and of the factory.                             *)

\* the exclusion patterns of the class that are found in the document
ExclusionsFound(class, doc) ==
    LET patterns == Get(DetectionFeatures(class), "exclusion_patterns")
    IN  {k \in DOMAIN patterns : ReSearch(patterns[k], doc, IgnoreCaseMultiline)}

\* the required patterns of the class that are found in the document
RequiredFound(class, doc) ==
    LET pairs == Get(DetectionFeatures(class), "required_patterns")
    IN  {k \in DOMAIN pairs : ReSearch(pairs[k][1], doc, IgnoreCaseMultiline)}

\* C5: the confidence detect returns lies in [0, 1]: a negative score gives 0
\* and max_score = 0 gives 0; when an exclusion pattern is found in the
\* document the confidence is 0, whatever the other patterns would score.
ConfidenceInUnitInterval ==
    call = "detect" =>
        /\ ~FLess(detected.result, FZero) /\ ~FLess(FOne, detected.result)
        /\ FLess(detected.score, FZero) => detected.result = FZero
        /\ detected.max_score = FZero => detected.result = FZero
        /\ ExclusionsFound(strategy, content) # {} => detected.result = FZero

\* detect of the conference class on a document where a required pattern is
\* found and an exclusion pattern too
ExcludedDespiteRequired ==
    /\ call = "detect" /\ strategy = "conference"
    /\ ExclusionsFound(strategy, content) # {}
    /\ RequiredFound(strategy, content) # {}

\* the score of a registered class, as auto_detect records it
ScoreOf(class) == Detected(class, content).result

\* the position of a class in the registry
Registered(class) == CHOOSE k \in DOMAIN strategies : strategies[k] = class

----------------------------------------------------------------------------
(* Termination.  A parse call is sequential code: while the loop condition *)
(* i < len(lines) holds it takes another iteration, and when it fails the  *)
(* call returns.  InLoop is that condition, which is all an iteration      *)
(* needs to run, so the second conjunct of Running is weak fairness of the *)
(* iterations, written with InLoop for their enabling condition.           *)

InLoop == pc = "parse" /\ i < len_lines
Running == WF_vars(Return) /\ ([]<>~InLoop \/ []<><<Next>>_vars)
SpecLive == Init /\ [][Next]_vars /\ Running

\* one iteration of the loop of the builder that runs
IterOf(s, raw) ==
    CASE builder = "generic" -> GenericIter(s, table, raw)
      [] builder = "thesis" -> ThesisIter(s, raw)
      [] builder = "conference" -> ConferenceIter(s, raw)
      [] builder = "journal" -> JournalIter(s, raw)

\* the loop stands at a line it has read before (the last iteration did not
\* advance the index), and the iteration on it leaves the index where it is
\* once more
Stalls ==
    /\ pc = "parse" /\ i < Len(lines)
    /\ IterOf(Locals, lines[i + 1]).i = i

\* an iteration that leaves the index where it is
Reprocess == pc = "parse" /\ pc' = "parse" /\ i' = i

\* C21: every parse call returns, with the index at the end of the input.  An
\* iteration that does not advance the index is one of: thesis stage 2 to 3,
\* thesis stage 3 to 4, conference or journal stage 1 to 2; and the iteration
\* after such an iteration advances the index.
ParseTerminates ==
    /\ <>(pc = "done" /\ i = len_lines)
    /\ []~Stalls
    /\ [][Reprocess =>
             /\ builder = "thesis" => stage \in {2, 3} /\ stage' = stage + 1
             /\ builder \in {"conference", "journal"} => stage = 1 /\ stage' = 2
             /\ builder # "generic"]_vars

\* a thesis parse that went through both of its stage changes without an
\* advance, and returned
ThesisTrailerReachedAndReturned ==
    /\ builder = "thesis" /\ pc = "done" /\ stage = 4
    /\ i = len_lines /\ len_lines > 0

----------------------------------------------------------------------------
(* Headings that the pattern table of the builder does not classify.       *)

\* an iteration that ends in i += 1; the line it read is lines'[i + 1]
Advance == pc = "parse" /\ i < len_lines /\ i' = i + 1

\* the line is a heading without an entry in the table of the builder
Unclassified(line) == IsHeading(line) /\ ~KeywordLevel(table, line).found

\* the greatest "#"-count a builder gives a level of its own to
DefaultLevels ==
    CASE builder = "conference" -> 3
      [] builder = "journal" -> 2
      [] builder \in {"generic", "thesis"} -> 0

\* the step makes a node of the level and nothing else of the line
DefaultNode(level) ==
    /\ NodeCreated
    /\ nodes'[Len(nodes')].level = level
    /\ nodes'[Len(nodes')].line = i
    /\ nodes'[Len(nodes')].content = <<>>

\* the step makes no node and appends the line to the content of the node on
\* top of the stack, when there is one
TakenAsContent(line) ==
    /\ tree' = tree /\ node_stack' = node_stack
    /\ IF node_stack = <<>> THEN nodes' = nodes
       ELSE nodes' = [nodes EXCEPT ![node_stack[Len(node_stack)]].content
                                        = @ \o line \o <<"\n">>]

\* C22 as stated: whenever a builder reads an unclassified heading, a "#"-count
\* up to 3 (conference) or up to 2 (journal) makes a node of that level, and
\* any other count, and any count in the generic and thesis builders, makes no
\* node and goes into the content of the current node.
UnclassifiedHeadingDefaultAlways ==
    [][Advance =>
          LET line == Strip(lines'[i + 1])
          IN  Unclassified(line) =>
                  IF LeadingHashes(line) <= DefaultLevels
                  THEN DefaultNode(LeadingHashes(line))
                  ELSE TakenAsContent(line)]_vars

\* C22: the structural default holds from the title on in the conference and
\* journal builders, in the BODY stage of the thesis builder and everywhere in
\* the generic builder.  Elsewhere an unclassified heading makes no node and
\* no content: before the title the conference and journal builders drop it
\* (unless it is "# ...", which is the title and a level-1 node at once), and
\* the thesis builder leaves the tree as it is in its other stages.
UnclassifiedHeadingDefault ==
    [][Advance =>
          LET line == Strip(lines'[i + 1])
              default == IF LeadingHashes(line) <= DefaultLevels
                         THEN DefaultNode(LeadingHashes(line))
                         ELSE TakenAsContent(line)
          IN  Unclassified(line) =>
                  CASE builder = "generic" -> default /\ metadata' = metadata
                    [] builder = "thesis" ->
                          IF stage = 3 THEN default /\ metadata' = metadata
                          ELSE TreeUntouched
                    [] builder \in {"conference", "journal"} ->
                          IF stage' >= 1 THEN default
                          ELSE TreeUntouched /\ metadata' = metadata]_vars

\* the conference builder returned after it dropped a heading read before the
\* title, made a level-3 node of an unclassified heading of three "#" and took
\* one of four "#" into the content of that node
DroppedBeforeTitleAndDefaultLevels ==
    /\ builder = "conference" /\ pc = "done"
    /\ lines # <<>> /\ Unclassified(Strip(lines[1]))
    /\ \A n \in DOMAIN nodes : nodes[n].line >= 1
    /\ \E n \in DOMAIN nodes, k \in DOMAIN lines :
          /\ nodes[n].level = 3
          /\ Unclassified(Strip(lines[nodes[n].line + 1]))
          /\ k > nodes[n].line + 1
          /\ LeadingHashes(Strip(lines[k])) = 4 /\ Unclassified(Strip(lines[k]))
          /\ nodes[n].content = Strip(lines[k]) \o <<"\n">>

----------------------------------------------------------------------------
(* auto_detect on an empty registry.                                       *)

\* auto_detect called, or create_strategy with strategy_name = None
DetectionRequested ==
    call = "auto_detect" \/ (call = "create_strategy" /\ strategy_name = NoName)

\* C23: detection raises RuntimeError and returns no class when the registry is
\* empty, whether it was never filled or emptied by unregister_strategy; with a
\* registry that is not empty it raises nothing and returns a registered
\* class.
EmptyRegistryOnlyFailure ==
    /\ [](DetectionRequested =>
             /\ raised = "RuntimeError" <=> strategies = <<>>
             /\ raised = None <=> strategies # <<>>
             /\ raised # None => best = None /\ scores = <<>>
             /\ raised = None => \E k \in DOMAIN strategies : strategies[k] = best)
    /\ [][(call' = "unregister_strategy" /\ strategies # <<>> /\ strategies' = <<>>) =>
             AutoDetect(strategies', confidence_threshold', content').raised
                 = "RuntimeError"]_vars

----------------------------------------------------------------------------
(* set_confidence_threshold.                                               *)

InUnitInterval(t) == ~FLess(t, FZero) /\ ~FLess(FOne, t)

\* C24: set_confidence_threshold(t) raises ValueError and leaves
\* CONFIDENCE_THRESHOLD as it was when t is outside [0, 1]; for t in [0, 1], 0 and
\* 1 included, it raises nothing and stores t; the stored value changes in no
\* other way, and auto_detect compares the confidence of the class it returns
\* with the stored value.
ThresholdValidated ==
    /\ [](call = "set_confidence_threshold" =>
             /\ raised = (IF InUnitInterval(threshold) THEN None ELSE "ValueError")
             /\ raised = None => confidence_threshold = threshold)
    /\ [](InUnitInterval(confidence_threshold))
    /\ []((call = "auto_detect" /\ raised = None) =>
             below = FLess(scores[best], confidence_threshold))
    /\ [][(call' = "set_confidence_threshold" /\ raised' = "ValueError") =>
             confidence_threshold' = confidence_threshold]_vars
    /\ [][confidence_threshold' # confidence_threshold =>
             /\ call' = "set_confidence_threshold" /\ raised' = None
             /\ confidence_threshold' = threshold']_vars

\* auto_detect after set_confidence_threshold(1.0): the class returned has a
\* confidence that passes the threshold of the class attribute's initial value
\* and is below the one stored
ComparedWithStoredThreshold ==
    /\ call = "auto_detect" /\ raised = None
    /\ confidence_threshold = FOne
    /\ below /\ ~FLess(scores[best], DefaultThreshold)

----------------------------------------------------------------------------
(* create_strategy with a name.                                            *)

NamedRequest == call = "create_strategy" /\ strategy_name # NoName

\* the places in the registry of the classes that have the lowercased
\* strategy_name among their simplified names
NamedPlaces ==
    {k \in DOMAIN strategies : StrLower(strategy_name) \in NamesOf[strategies[k]]}

----------------------------------------------------------------------------
(* The registry.                                                           *)

Elements(seq) == {seq[k] : k \in DOMAIN seq}

----------------------------------------------------------------------------
(* The docstring of auto_detect.                                           *)

\* C27: auto_detect returns the class of the highest score when that score
\* reaches the threshold, and the first registered class when no score does.
BelowThresholdDefaultsToFirst ==
    (call = "auto_detect" /\ raised = None) =>
        /\ ~below =>
              /\ ~FLess(scores[best], confidence_threshold)
              /\ \A k \in DOMAIN strategies : ~FLess(scores[best], scores[strategies[k]])
        /\ below => best = strategies[1]

----------------------------------------------------------------------------
(* The order of the entries in the thesis and journal tables.              *)

\* the entries of the table of the last call that match its text and have the
\* description given
MatchedAs(description) ==
    {k \in MatchingEntries(KeywordsConfig(cl_table), cl_text) :
        KeywordsConfig(cl_table)[k].description = description}

\* C28: with the thesis table, a text in which the pattern of the clause entry
\* is found, such as "### 1.1.1", is classified as clause at level 3, and not
\* as section at level 2.
ClauseBeforeSection ==
    (call = "match_keyword_level" /\ cl_table = "thesis" /\ MatchedAs("clause") # {}) =>
        /\ cl_result.found
        /\ cl_result.description = "clause"
        /\ cl_result.level = 3

\* C29: with the journal table, a text in which the pattern of the last entry,
\* a Roman numeral, is found and no pattern of an entry other than this and
\* the subsection entry, such as "# II. SYSTEM", is classified as section at
\* level 1.
RomanFallbackIsSection ==
    (/\ call = "match_keyword_level" /\ cl_table = "journal"
     /\ MatchedAs("section") # {}
     /\ MatchingEntries(KeywordsConfig(cl_table), cl_text)
            \subseteq MatchedAs("section") \cup MatchedAs("subsection")) =>
        /\ cl_result.found
        /\ cl_result.description = "section"
        /\ cl_result.level = 1

----------------------------------------------------------------------------
(* The ordered-flow heuristic of the conference class.                     *)

\* the start of the first match of each expected section that is found in the
\* document, in the order of the expected sections
FoundStarts ==
    Found([k \in DOMAIN ExpectedSections |->
              SearchStart(ExpectedSections[k], content, IgnoreCaseMultiline)])

StrictlyIncreasing(positions) ==
    \A k \in 1..(Len(positions) - 1) : positions[k] < positions[k + 1]

\* found / N, and found / N + 0.2 capped at 1
FlowShare(positions) == Frac(Len(positions), Len(ExpectedSections))
FlowShareWithBonus(positions) == FMin(FOne, FAdd(FlowShare(positions), Frac(2, 10)))

\* C30 as stated: _check_standard_section_flow returns found / 8, and
\* found / 8 + 0.2 capped at 1 whenever the starts of the first matches of the
\* patterns found are strictly increasing, for any number of patterns found.
FlowBonusForAnyNumber ==
    call = "_check_standard_section_flow" =>
        hint_score = (IF StrictlyIncreasing(FoundStarts)
                      THEN FlowShareWithBonus(FoundStarts) ELSE FlowShare(FoundStarts))

\* C30: _check_standard_section_flow returns found / 8, and found / 8 + 0.2
\* capped at 1 when at least three patterns are found and the starts of their
\* first matches are strictly increasing; with fewer than three patterns found
\* it returns found / 8.
FlowBonusFromThreeOn ==
    call = "_check_standard_section_flow" =>
        hint_score = (IF Len(FoundStarts) >= 3 /\ StrictlyIncreasing(FoundStarts)
                      THEN FlowShareWithBonus(FoundStarts) ELSE FlowShare(FoundStarts))

\* the function called on a document with two expected sections, in order: it
\* returned 2 / 8
TwoInOrderNoBonus ==
    /\ call = "_check_standard_section_flow"
    /\ Len(FoundStarts) = 2 /\ StrictlyIncreasing(FoundStarts)
    /\ hint_score = Frac(2, 8)

----------------------------------------------------------------------------
(* Level-1 nodes and the root sequence.                                    *)

\* C31: in the tree a builder returns, every node of level 1 is an element of
\* the root sequence and is in no children list.
LevelOneAtRoot ==
    pc = "done" =>
        \A n \in DOMAIN nodes :
            nodes[n].level = 1 =>
                /\ \E k \in DOMAIN tree : tree[k] = n
                /\ Parents(n) = {}

----------------------------------------------------------------------------
(* The shape of node_stack.                                                *)

\* C32: during and after every parse, the levels of node_stack increase strictly
\* from bottom to top, its bottom element is the last element of tree, each
\* other element is the last child of the element below it, and its top is the
\* node created last.
StackIsLastBranch ==
    /\ \A k \in 1..(Len(node_stack) - 1) :
          /\ nodes[node_stack[k]].level < nodes[node_stack[k + 1]].level
          /\ LET children == nodes[node_stack[k]].children
             IN  children # <<>> /\ children[Len(children)] = node_stack[k + 1]
    /\ nodes # <<>> => node_stack # <<>>
    /\ node_stack # <<>> =>
          /\ tree # <<>> /\ node_stack[1] = tree[Len(tree)]
          /\ node_stack[Len(node_stack)] = Len(nodes)

\* a parse under way with three nodes open, after an earlier root was closed
ThreeOpenBelowSecondRoot ==
    /\ pc = "parse" /\ builder # "generic"
    /\ Len(node_stack) = 3 /\ Len(tree) >= 2

----------------------------------------------------------------------------
(* The order of the nodes in the tree.                                     *)

\* C33: _find_nodes without criteria, the pre-order traversal of the tree,
\* returns every node that the builder made, in strictly increasing order of
\* the line of its heading.
PreOrderIsDocumentOrder ==
    (call = "find_nodes" /\ Len(kwargs) = 0) =>
        /\ Range(found_nodes) = DOMAIN nodes
        /\ \A k \in 1..(Len(found_nodes) - 1) :
              nodes[found_nodes[k]].line < nodes[found_nodes[k + 1]].line

\* an unfiltered search of a tree where a root follows a nested node: the nested
\* node is returned before the root
FoundNestedThenRoot ==
    /\ call = "find_nodes" /\ Len(kwargs) = 0
    /\ Len(found_nodes) = 3 /\ Len(tree) = 2
    /\ found_nodes[2] \in Range(nodes[tree[1]].children)
    /\ found_nodes[3] = tree[2]

----------------------------------------------------------------------------
(* The stage of the staged builders.                                       *)

\* C34: during a parse the stage never decreases; the thesis parse raises it
\* by one at a time, from 0 up to 4 at most, and the conference and journal
\* parses keep it within 0..3.
StageNeverDecreases ==
    /\ [][/\ stage' >= stage
          /\ builder = "thesis" => stage' \in {stage, stage + 1}]_vars
    /\ [](/\ builder = "thesis" => stage \in 0..4
          /\ builder \in {"conference", "journal"} => stage \in 0..3)

\* the thesis parse in its last stage with a line still to read, after a
\* chapter was attached in stage 3
ThesisInTrailerAfterBody ==
    /\ builder = "thesis" /\ pc = "parse" /\ stage = 4 /\ i < len_lines
    /\ \E n \in DOMAIN nodes : nodes[n].description = "chapter"

\* C35 (thesis parse, stage 4): the passage from stage 3 to stage 4 leaves i on
\* the heading that caused it, so the first line stage 4 handles is a heading
\* and sets last_description; whenever stage 4 appends a line that is not a
\* heading, last_description is not None; and metadata never has the key None.
TrailerKeyDefined ==
    /\ [][(builder = "thesis" /\ pc = "parse" /\ i < len_lines) =>
             /\ (stage = 3 /\ stage' = 4) =>
                   i' = i /\ IsHeading(Strip(lines'[i + 1]))
             /\ (stage = 4 /\ ~IsHeading(Strip(lines'[i + 1]))) =>
                   /\ last_description # None
                   /\ last_description' = last_description
                   /\ last_description \in DOMAIN metadata']_vars
    /\ [](None \notin DOMAIN metadata)

\* stage 4 has appended a line that is not a heading, after the heading that
\* opened the stage
TrailerTextAppended ==
    /\ builder = "thesis" /\ stage = 4 /\ pc = "parse"
    /\ i = Len(lines) /\ i >= 2
    /\ ~IsHeading(Strip(lines[i])) /\ IsHeading(Strip(lines[i - 1]))
    /\ last_description \in DOMAIN metadata

\* C36 (conference and journal parse): once the title line is found (stage >= 1)
\* node_stack is not empty; an iteration that starts in stage 2 or 3 leaves
\* metadata["authors"] as it was, and it either attaches the line as a node, or
\* stores it as metadata["index_terms"], or appends it to the content of the
\* node on top of the stack.
StackOpenAfterTitle ==
    /\ []((builder \in {"conference", "journal"} /\ stage >= 1) => node_stack # <<>>)
    /\ [][(builder \in {"conference", "journal"} /\ pc = "parse" /\ i < len_lines
                                                  /\ stage >= 2) =>
             /\ "authors" \in DOMAIN metadata
             /\ metadata'["authors"] = metadata["authors"]
             /\ LET line == Strip(lines'[i + 1])
                    top == node_stack[Len(node_stack)]
                IN  \/ Len(nodes') = Len(nodes) + 1
                    \/ /\ "index_terms" \notin DOMAIN metadata
                       /\ "index_terms" \in DOMAIN metadata'
                       /\ metadata'["index_terms"] = line
                    \/ /\ node_stack' = node_stack
                       /\ nodes'[top].content = nodes[top].content \o line \o <<"\n">>]_vars

\* in stage 2 a line that is not a heading was just read and became content of
\* the open node
Stage2TextKept ==
    /\ builder \in {"conference", "journal"} /\ pc = "parse" /\ stage = 2
    /\ i = Len(lines) /\ i >= 1 /\ ~IsHeading(Strip(lines[i]))
    /\ node_stack # <<>>
    /\ nodes[node_stack[Len(node_stack)]].content = Strip(lines[i]) \o <<"\n">>
    /\ metadata["authors"] = <<>>

\* C37 (conference and journal parse): while stage is 0 there is neither
\* metadata nor a node; an iteration in stage 0 on a line that does not start
\* with "# " changes nothing but i; on a line that starts with "# " it sets
\* metadata["title"] and, in the same iteration, makes the line the first root
\* node; and that node stays the first root with the title of the metadata.
TitleIsFirstRoot ==
    /\ [][(builder \in {"conference", "journal"} /\ pc = "parse" /\ i < len_lines
                                                  /\ stage = 0) =>
             LET line == Strip(lines'[i + 1])
             IN  IF StartsWith(line, <<"#", " ">>)
                 THEN /\ stage' >= 1
                      /\ "title" \in DOMAIN metadata'
                      /\ metadata'["title"] = Title(line)
                      /\ Len(nodes') = 1 /\ tree' = <<1>> /\ node_stack' = <<1>>
                      /\ nodes'[1].title = Title(line) /\ nodes'[1].line = i
                 ELSE /\ stage' = 0 /\ metadata' = metadata
                      /\ nodes' = nodes /\ tree' = tree]_vars
    /\ []((builder \in {"conference", "journal"} /\ stage = 0) =>
             (DOMAIN metadata = {} /\ nodes = <<>> /\ tree = <<>>))
    /\ []((builder \in {"conference", "journal"} /\ stage >= 1) =>
             /\ tree # <<>> /\ tree[1] = 1
             /\ nodes[1].title = metadata["title"]
             /\ \A k \in 1..nodes[1].line : ~StartsWith(Strip(lines[k]), <<"#", " ">>))

\* the title was found on the second line or later and has just been attached
TitleAfterOtherLines ==
    /\ builder \in {"conference", "journal"} /\ pc = "parse" /\ stage >= 1
    /\ Len(nodes) = 1 /\ tree = <<1>>
    /\ nodes[1].line >= 1 /\ i = nodes[1].line + 1
    /\ nodes[1].title = metadata["title"]

----------------------------------------------------------------------------
(* The threshold and the class auto_detect returns.                        *)

----------------------------------------------------------------------------
(* The heading markers of get_section_content.                             *)

\* C39: in what get_section_content returns, every node emitted (a matching
\* node at depth 0, a node below one at its depth under it) has a heading marker
\* of 1 to 6 "#"; a node of level 0 or less is a root, so it is emitted at depth
\* 0 only and its marker is one "#".
MarkersOneToSix ==
    call = "get_section_content" =>
        \A x \in Emitted(kwargs) :
            LET depth == Len(Path(x[2])) - Len(Path(x[1]))
                marker(text) ==
                    /\ LeadingHashes(text) \in 1..6
                    /\ text[LeadingHashes(text) + 1] = " "
                    /\ nodes[x[2]].level <= 0 => (depth = 0 /\ LeadingHashes(text) = 1)
            IN  marker(NodeToMarkdown(nodes, x[2], depth))

\* a query emitted a node whose level plus depth is above 6, and a node of
\* level below 1 that has a child
EmittedCappedAndUnlevelled ==
    /\ call = "get_section_content"
    /\ \E x \in Emitted(kwargs) :
          nodes[x[2]].level + Len(Path(x[2])) - Len(Path(x[1])) > 6
    /\ \E x \in Emitted(kwargs) :
          nodes[x[2]].level < 1 /\ nodes[x[2]].children # <<>>
====
